---- MODULE Spec2Model ----
(***************************************************************************)
(* A model of the breakout sprite renderer of tonyb983/rust-graphics:      *)
(* the ResourceManager cache (resman.rs), Shader compilation (shader.rs),  *)
(* Texture creation (texture.rs) and the SpriteRenderer model matrix       *)
(* (render.rs, mod.rs util).                                               *)
(*                                                                         *)
(* The GPU driver is an external collaborator.  It is modelled by the sets *)
(* of live object names and by the sequence of GL calls an operation       *)
(* issues.  Object creation hands out any name that is non-zero and not    *)
(* live (deleted names may be handed out again).                           *)
(***************************************************************************)
EXTENDS Integers, Sequences, FiniteSets, TLC

VARIABLES
    shaders,     \* ResourceManager.shaders : name -> Shader
    textures,    \* ResourceManager.textures: name -> Texture
    glPrograms,  \* names of the live GL program objects
    glTextures,  \* names of the live GL texture objects
    running,     \* FALSE once the process has died inside an operation
    last,        \* the operation performed last: inputs, result, GL calls
    cargs,       \* the ShaderCompileArgs under test (SpecCompile)
    dargs,       \* the DrawSpriteArgs under test (SpecSprite)
    model,       \* the model matrix computed by the last draw_sprite
    poisoned,    \* the tables whose Mutex is poisoned
    lockErrs,    \* what the last operation wrote to stderr about a lock
    renderer,    \* the SpriteRenderer: shader, quad_vao, quad_vbo
    glVaos,      \* names of the live GL vertex array objects
    glBufs,      \* names of the live GL buffer objects
    pc,          \* where Program::execute stands
    input_status,\* Program::execute's input_status
    events,      \* the events pending in the SDL queue
    frame,       \* what the frame loop has done so far
    threads,     \* the threads using the cache: position and locals
    lockOwner,   \* table -> the thread holding its Mutex, if any
    cell         \* ResourceManager::instance's OnceCell

cacheVars == <<shaders, textures, glPrograms, glTextures>>
rendVars == <<renderer, glVaos, glBufs>>
frameVars == <<pc, input_status, events, frame>>
threadVars == <<threads, lockOwner, cell>>

vars == <<shaders, textures, glPrograms, glTextures, running, last, cargs, dargs, model,
          poisoned, lockErrs, renderer, glVaos, glBufs, pc, input_status, events, frame,
          threads, lockOwner, cell>>

-----------------------------------------------------------------------------
(* Bounds *)

MaxProgramId == 3
MaxTextureId == 3
MaxSrcLen == 2
MaxCoord == 2
MaxHalfSize == 2

Names == {"sprite", "face"}
ProgramIds == 1..MaxProgramId
TextureIds == 1..MaxTextureId

-----------------------------------------------------------------------------
(* Option<T>: None is the empty sequence, Some(v) the one-element sequence *)

None == <<>>
Some(v) == <<v>>
Range(s) == {s[i] : i \in DOMAIN s}

RECURSIVE Perms(_)
Perms(S) ==
    IF S = {} THEN {<<>>}
    ELSE UNION {{<<x>> \o p : p \in Perms(S \ {x})} : x \in S}

(* One GL call: function, enum argument, object name, further arguments *)
Call(fn, kind, id, ids) == [fn |-> fn, kind |-> kind, id |-> id, ids |-> ids]

-----------------------------------------------------------------------------
(* shader.rs: ShaderCompileArgs *)

NUL == 0
Bytes == {NUL, 65}
Sources == UNION {[1..n -> Bytes] : n \in 0..MaxSrcLen}

from_sources(vert_src, frag_src, geom_src) ==
    [vertex_source |-> vert_src, fragment_source |-> frag_src, geometry_source |-> geom_src]

ShaderArgs ==
    {from_sources(v, f, g) : v \in Sources, f \in Sources,
                             g \in {None} \cup {Some(s) : s \in Sources}}

(* Faulty variant of has_geo: the geometry stage is forgotten after its compile *)
has_geo_never(args) == FALSE

has_geo(args) == args.geometry_source # None

(* the first index of s at or after i holding a zero byte, 0 when none:   *)
(* the `for byte in ..as_bytes()` loops of is_cstr_valid                   *)
RECURSIVE FirstNul(_, _)
FirstNul(s, i) ==
    IF i > Len(s) THEN 0
    ELSE IF s[i] = 0 THEN i
    ELSE FirstNul(s, i + 1)

(* Faulty variant of is_cstr_valid: the geometry source is not looked at *)
is_cstr_valid_no_geo(args) ==
    IF FirstNul(args.vertex_source, 1) # 0 THEN FALSE
    ELSE IF FirstNul(args.fragment_source, 1) # 0 THEN FALSE
    ELSE TRUE

is_cstr_valid(args) ==
    IF FirstNul(args.vertex_source, 1) # 0 THEN FALSE
    ELSE IF FirstNul(args.fragment_source, 1) # 0 THEN FALSE
    ELSE IF has_geo(args) /\ FirstNul(args.geometry_source[1], 1) # 0 THEN FALSE
    ELSE TRUE

(* CString::new(bytes).unwrap(): the bytes followed by the terminator *)
CString(bytes) == Append(bytes, NUL)

to_cstrings(args) ==
    IF ~is_cstr_valid(args) THEN None
    ELSE Some([vertex_source   |-> CString(args.vertex_source),
               fragment_source |-> CString(args.fragment_source),
               geometry_source |-> IF has_geo(args)
                                   THEN Some(CString(args.geometry_source[1]))
                                   ELSE None])

-----------------------------------------------------------------------------
(* shader.rs: Shader *)

ShaderNew == [id |-> 0]
is_init(shader) == shader.id # 0

(* What the driver answers during one compile: the compile status of each *)
(* stage and the link status (1 success, 0 failure), the names it gives   *)
(* the three stage objects (distinct) and the program, and what becomes   *)
(* of the read of the geometry source.                                     *)
Statuses == [vertex : {0, 1}, fragment : {0, 1}, geometry : {0, 1}, program : {0, 1}]
AllOk == [vertex |-> 1, fragment |-> 1, geometry |-> 1, program |-> 1]
Stages == {"vertex", "fragment", "geometry"}
StageNames == {so \in [Stages -> 1..Cardinality(Stages)] :
                 \A x, y \in Stages : x # y => so[x] # so[y]}

(* The geometry source is handed to ShaderSource as `geo_str.as_ptr().cast()`: *)
(* the string's bytes are read as the pointer array.  The read either faults   *)
(* (the process dies) or yields arbitrary text, whose compile status is        *)
(* whatever the driver says.                                                    *)
GeoSourceOutcomes == {"fault", "garbage"}

AllDrivers == [st : Statuses, so : StageNames, pid : ProgramIds, geo : GeoSourceOutcomes]

check_compile_errors(id, check, status) ==
    <<Call(IF check = "Program" THEN "GetProgramiv" ELSE "GetShaderiv",
           IF check = "Program" THEN "GL_LINK_STATUS" ELSE "GL_COMPILE_STATUS",
           id, <<status>>)>>
    \o (IF status = 0
        THEN <<Call(IF check = "Program" THEN "get_program_info_log" ELSE "get_shader_info_log",
                    check, id, <<>>)>>
        ELSE <<>>)

CompileStage(kind, check, id, src, status) ==
    <<Call("CreateShader", kind, id, <<>>),
      Call("ShaderSource", kind, id, src),
      Call("CompileShader", kind, id, <<>>)>>
    \o check_compile_errors(id, check, status)

(* The body of Shader::compile once the sources are C strings, under the   *)
(* driver answers drv.                                                      *)
CompileWith(self, args, cs, drv) ==
    LET so   == drv.so
        pid  == drv.pid
        vert == CompileStage("GL_VERTEX_SHADER", "Vertex", so["vertex"],
                             cs.vertex_source, drv.st.vertex)
        frag == CompileStage("GL_FRAGMENT_SHADER", "Fragment", so["fragment"],
                             cs.fragment_source, drv.st.fragment)
        geom == IF cs.geometry_source # None
                THEN <<Call("CreateShader", "GL_GEOMETRY_SHADER", so["geometry"], <<>>),
                       Call("ShaderSource", "GL_GEOMETRY_SHADER", so["geometry"], <<>>)>>
                     \o (IF drv.geo = "fault" THEN <<>>
                         ELSE <<Call("CompileShader", "GL_GEOMETRY_SHADER", so["geometry"], <<>>)>>
                              \o check_compile_errors(so["geometry"], "Geometry", drv.st.geometry))
                ELSE <<>>
        link == <<Call("CreateProgram", "", pid, <<>>),
                  Call("AttachShader", "", pid, <<so["vertex"]>>),
                  Call("AttachShader", "", pid, <<so["fragment"]>>)>>
                \o (IF has_geo(args)
                    THEN <<Call("AttachShader", "", pid, <<so["geometry"]>>)>>
                    ELSE <<>>)
                \o <<Call("LinkProgram", "", pid, <<>>)>>
                \o check_compile_errors(pid, "Program", drv.st.program)
        del  == <<Call("DeleteShader", "", so["vertex"], <<>>),
                  Call("DeleteShader", "", so["fragment"], <<>>)>>
                \o (IF has_geo(args)
                    THEN <<Call("DeleteShader", "", so["geometry"], <<>>)>>
                    ELSE <<>>)
    IN  IF cs.geometry_source # None /\ drv.geo = "fault"
        THEN [returned |-> FALSE, ret |-> FALSE, id |-> self.id,
              calls |-> vert \o frag \o geom, created |-> {}]
        ELSE [returned |-> TRUE, ret |-> TRUE, id |-> pid,
              calls |-> vert \o frag \o geom \o link \o del, created |-> {pid}]

(* Shader::compile(&mut self, gl, args) -> bool: the outcomes possible     *)
(* under the driver answers `drivers`.  An outcome:                         *)
(*   returned : FALSE when the process died inside the call                *)
(*   ret      : the bool returned                                          *)
(*   id       : self.id afterwards                                         *)
(*   calls    : the GL calls issued, in order                              *)
(*   created  : the program objects created                                *)
compile(self, args, drivers) ==
    LET cs == to_cstrings(args)
    IN  IF cs = None
        THEN {[returned |-> TRUE, ret |-> FALSE, id |-> self.id, calls |-> <<>>, created |-> {}]}
        ELSE {CompileWith(self, args, cs[1], drv) : drv \in drivers}

(* Faulty variant of load_shader_internal: compile runs on a copy of the *)
(* handle (Shader is Copy) and the handle returned is the fresh one      *)
load_shader_internal_on_copy(args, drivers) ==
    IF ~is_cstr_valid(args)
    THEN {[returned |-> TRUE, ret |-> None, calls |-> <<>>, created |-> {}]}
    ELSE {[returned |-> c.returned,
           ret      |-> IF c.returned /\ c.ret THEN Some(ShaderNew) ELSE None,
           calls    |-> c.calls,
           created  |-> c.created] : c \in compile(ShaderNew, args, drivers)}

(* ResourceManager::load_shader_internal(gl, args) -> Option<Shader> *)
load_shader_internal(args, drivers) ==
    IF ~is_cstr_valid(args)
    THEN {[returned |-> TRUE, ret |-> None, calls |-> <<>>, created |-> {}]}
    ELSE {[returned |-> c.returned,
           ret      |-> IF c.returned /\ c.ret THEN Some([id |-> c.id]) ELSE None,
           calls    |-> c.calls,
           created  |-> c.created] : c \in compile(ShaderNew, args, drivers)}

-----
(* GL object lifetime *)

(* glDeleteProgram(id): the name 0 is silently ignored *)
DeletePrograms(live, ids) == live \ ids

(* glDeleteTextures(n, ids) *)
DeleteTextures(live, ids) == live \ ids

-----------------------------------------------------------------------------
(* resman.rs: ResourceManager *)

(* The record kept of an operation: what it was given, whether it returned, *)
(* what it returned, the GL calls it issued, and the cache and the live GL  *)
(* objects as they were when it was called.                                 *)
Op(op, name, input, returned, ret, calls) ==
    [op |-> op, name |-> name, input |-> input, returned |-> returned, ret |-> ret,
     calls |-> calls,
     pre |-> [shaders |-> shaders, textures |-> textures,
              glPrograms |-> glPrograms, glTextures |-> glTextures,
              poisoned |-> poisoned, renderer |-> renderer,
              glVaos |-> glVaos, glBufs |-> glBufs]]

(* HashMap::get(name).copied() *)
TableGet(table, name) == IF name \in DOMAIN table THEN Some(table[name]) ELSE None

(* Faulty variant of TableInsert: the table is replaced by the one entry *)
TableInsertAlone(table, name, value) == [n \in {name} |-> value]

(* HashMap::insert(name, value): the table afterwards *)
TableInsert(table, name, value) ==
    [n \in DOMAIN table \cup {name} |-> IF n = name THEN value ELSE table[n]]

Empty == [n \in {} |-> 0]

(* Faulty variant of EvictShaderCalls: the displaced program is dropped *)
(* from the table without being deleted on the GPU.                     *)
EvictShaderCallsLeak(old, loaded) == <<>>

(* the delete issued for the entry an insert displaced *)
EvictShaderCalls(old, loaded) ==
    IF old # None /\ old[1].id # loaded.id
    THEN <<Call("DeleteProgram", "", old[1].id, <<>>)>>
    ELSE <<>>

(* ResourceManager::load_shader(gl, name, args) -> Option<Shader>.        *)
(* drivers: the answers the GL driver may give while the shader compiles. *)
(* self.shaders.lock().ok()? returns None when the Mutex is poisoned: the  *)
(* program just compiled is neither stored nor deleted.                    *)
(* Faulty variant of load_shader: the entry under the name is evicted and *)
(* deleted before the sources are compiled, so a failed load loses it.    *)
load_shader_evict_first(name, args, drivers) ==
    /\ running
    /\ lockErrs' = <<>>
    /\ \E r \in load_shader_internal(args, {d \in drivers : d.pid \notin glPrograms}) :
        LET old   == TableGet(shaders, name)
            evict == IF old # None
                     THEN <<Call("DeleteProgram", "", old[1].id, <<>>)>>
                     ELSE <<>>
            rest  == [n \in DOMAIN shaders \ {name} |-> shaders[n]]
            live  == DeletePrograms(glPrograms, {c.id : c \in Range(evict)})
        IN  IF ~r.returned
            THEN /\ running' = FALSE
                 /\ last' = Op("load_shader", name, args, FALSE, None, evict \o r.calls)
                 /\ glPrograms' = live \cup r.created
                 /\ shaders' = rest
            ELSE IF r.ret = None \/ "shaders" \in poisoned
            THEN /\ last' = Op("load_shader", name, args, TRUE, None, evict \o r.calls)
                 /\ glPrograms' = live \cup r.created
                 /\ shaders' = rest
                 /\ UNCHANGED running
            ELSE /\ shaders' = TableInsert(rest, name, r.ret[1])
                 /\ glPrograms' = live \cup r.created
                 /\ last' = Op("load_shader", name, args, TRUE, Some(r.ret[1]),
                                evict \o r.calls)
                 /\ UNCHANGED running

load_shader(name, args, drivers) ==
    /\ running
    /\ lockErrs' = <<>>
    /\ \E r \in load_shader_internal(args, {d \in drivers : d.pid \notin glPrograms}) :
        LET old == TableGet(shaders, name)
        IN  IF ~r.returned
            THEN /\ running' = FALSE
                 /\ last' = Op("load_shader", name, args, FALSE, None, r.calls)
                 /\ glPrograms' = glPrograms \cup r.created
                 /\ UNCHANGED shaders
            ELSE IF r.ret = None \/ "shaders" \in poisoned
            THEN /\ last' = Op("load_shader", name, args, TRUE, None, r.calls)
                 /\ glPrograms' = glPrograms \cup r.created
                 /\ UNCHANGED <<shaders, running>>
            ELSE LET loaded == r.ret[1]
                     evict  == EvictShaderCalls(old, loaded)
                 IN  /\ shaders' = TableInsert(shaders, name, loaded)
                     /\ glPrograms' = DeletePrograms(glPrograms \cup r.created,
                                                     {c.id : c \in Range(evict)})
                     /\ last' = Op("load_shader", name, args, TRUE, Some(loaded),
                                    r.calls \o evict)
                     /\ UNCHANGED running

LoadShader(name, args, drivers) ==
    /\ load_shader(name, args, drivers)
    /\ UNCHANGED <<textures, glTextures, cargs, dargs, model,
                 poisoned, rendVars, frameVars, threadVars>>

(* ResourceManager::get_shader(gl, name) -> Option<Shader> *)
get_shader(name) ==
    /\ running
    /\ lockErrs' = <<>>
    /\ last' = Op("get_shader", name, <<>>, TRUE,
                  IF "shaders" \in poisoned THEN None ELSE TableGet(shaders, name), <<>>)

GetShader(name) ==
    /\ get_shader(name)
    /\ UNCHANGED <<shaders, textures, glPrograms, glTextures, running, cargs, dargs, model,
                 poisoned, rendVars, frameVars, threadVars>>

-----------------------------------------------------------------------------
(* texture.rs: Texture, TextureOptions *)

TextureOptionsDefault ==
    [internal_format |-> "GL_RGB", image_format |-> "GL_RGB",
     wrap_s |-> "GL_REPEAT", wrap_t |-> "GL_REPEAT",
     min_filter |-> "GL_LINEAR", max_filter |-> "GL_LINEAR"]

(* Faulty variant of with_options: the name GenTextures wrote is not the *)
(* one kept in the handle, whose id stays 0.                             *)
with_options_unnamed(tid, opts) ==
    [tex   |-> [id |-> 0, size |-> [x |-> 0, y |-> 0], opts |-> opts, is_bound |-> FALSE],
     calls |-> <<Call("GenTextures", "", tid, <<>>)>>]

(* Texture::with_options(gl, opts): GenTextures stored the name tid in id *)
with_options(tid, opts) ==
    [tex   |-> [id |-> tid, size |-> [x |-> 0, y |-> 0], opts |-> opts, is_bound |-> FALSE],
     calls |-> <<Call("GenTextures", "", tid, <<>>)>>]

(* Texture::new(gl) *)
TextureNew(tid) == with_options(tid, TextureOptionsDefault)

(* Faulty variant of with_alpha: the default, opaque formats *)
with_alpha_opaque(tid) == TextureNew(tid)

(* Texture::with_alpha(gl) *)
with_alpha(tid) ==
    with_options(tid, [TextureOptionsDefault EXCEPT !.internal_format = "GL_RGBA",
                                                    !.image_format = "GL_RGBA"])

(* Faulty variant of generate: the image is uploaded but self.size is not set *)
generate_keeps_size(tex, size) ==
    [tex   |-> tex,
     calls |-> <<Call("BindTexture", "GL_TEXTURE_2D", tex.id, <<>>),
                 Call("TexImage2D", "GL_TEXTURE_2D", tex.id,
                      <<tex.opts.internal_format, size.x, size.y, tex.opts.image_format>>),
                 Call("TexParameteri", "GL_TEXTURE_WRAP_S", tex.id, <<tex.opts.wrap_s>>),
                 Call("TexParameteri", "GL_TEXTURE_WRAP_T", tex.id, <<tex.opts.wrap_t>>),
                 Call("TexParameteri", "GL_TEXTURE_MIN_FILTER", tex.id, <<tex.opts.min_filter>>),
                 Call("TexParameteri", "GL_TEXTURE_MAG_FILTER", tex.id, <<tex.opts.max_filter>>),
                 Call("BindTexture", "GL_TEXTURE_2D", 0, <<>>)>>]

(* Texture::generate(&mut self, gl, size, data) *)
generate(tex, size) ==
    [tex   |-> [tex EXCEPT !.size = size],
     calls |-> <<Call("BindTexture", "GL_TEXTURE_2D", tex.id, <<>>),
                 Call("TexImage2D", "GL_TEXTURE_2D", tex.id,
                      <<tex.opts.internal_format, size.x, size.y, tex.opts.image_format>>),
                 Call("TexParameteri", "GL_TEXTURE_WRAP_S", tex.id, <<tex.opts.wrap_s>>),
                 Call("TexParameteri", "GL_TEXTURE_WRAP_T", tex.id, <<tex.opts.wrap_t>>),
                 Call("TexParameteri", "GL_TEXTURE_MIN_FILTER", tex.id, <<tex.opts.min_filter>>),
                 Call("TexParameteri", "GL_TEXTURE_MAG_FILTER", tex.id, <<tex.opts.max_filter>>),
                 Call("BindTexture", "GL_TEXTURE_2D", 0, <<>>)>>]

(* Faulty variant of TextureEq: the comparison #[derive(PartialEq)] gives *)
TextureEqDerived(a, b) == a = b

(* Texture == Texture compares the ids only *)
TextureEq(a, b) == a.id = b.id

-----------------------------------------------------------------------------
(* The file system and the image codec, as load_texture_internal sees them: *)
(* whether the path exists and what stb_image::image::load answers.         *)

Files ==
    [p \in {"missing.png", "corrupt.png", "sky.hdr", "face.png"} |->
        CASE p = "missing.png" -> [exists |-> FALSE, load |-> "Error",   width |-> 0, height |-> 0]
          [] p = "corrupt.png" -> [exists |-> TRUE,  load |-> "Error",   width |-> 0, height |-> 0]
          [] p = "sky.hdr"     -> [exists |-> TRUE,  load |-> "ImageF32", width |-> 2, height |-> 2]
          [] p = "face.png"    -> [exists |-> TRUE,  load |-> "ImageU8", width |-> 2, height |-> 1]]
Paths == DOMAIN Files

(* Faulty variant of load_texture_internal: a floating-point image is *)
(* uploaded like an 8-bit one.                                        *)
load_texture_internal_f32(file, alpha, tid) ==
    IF ~Files[file].exists
    THEN [ret |-> None, calls |-> <<>>, created |-> {}]
    ELSE IF Files[file].load = "Error"
    THEN [ret |-> None, calls |-> <<>>, created |-> {}]
    ELSE LET t == IF alpha THEN with_alpha(tid) ELSE TextureNew(tid)
             g == generate(t.tex, [x |-> Files[file].width, y |-> Files[file].height])
         IN  [ret |-> Some(g.tex), calls |-> t.calls \o g.calls, created |-> {tid}]

(* ResourceManager::load_texture_internal(gl, file, alpha) -> Option<Texture> *)
load_texture_internal(file, alpha, tid) ==
    IF ~Files[file].exists
    THEN [ret |-> None, calls |-> <<>>, created |-> {}]
    ELSE IF Files[file].load = "Error"
    THEN [ret |-> None, calls |-> <<>>, created |-> {}]
    ELSE IF Files[file].load = "ImageF32"
    THEN [ret |-> None, calls |-> <<>>, created |-> {}]
    ELSE LET t == IF alpha THEN with_alpha(tid) ELSE TextureNew(tid)
             g == generate(t.tex, [x |-> Files[file].width, y |-> Files[file].height])
         IN  [ret |-> Some(g.tex), calls |-> t.calls \o g.calls, created |-> {tid}]

(* Faulty variant of EvictTextureCalls: the displaced texture is dropped *)
(* from the table without being deleted on the GPU.                      *)
EvictTextureCallsLeak(old, loaded) == <<>>

(* the delete issued for the entry an insert displaced *)
EvictTextureCalls(old, loaded) ==
    IF old # None /\ old[1].id # loaded.id
    THEN <<Call("DeleteTextures", "", 1, <<old[1].id>>)>>
    ELSE <<>>

(* Faulty variant of LoadTexture: the entry under the name is evicted and *)
(* deleted before the file is looked at, so a failed load loses it.       *)
LoadTextureEvictFirst(name, file, alpha) ==
    /\ running
    /\ \E r \in {load_texture_internal(file, alpha, tid) : tid \in TextureIds \ glTextures} :
        LET old   == TableGet(textures, name)
            inp   == [file |-> file, alpha |-> alpha]
            evict == IF old # None
                     THEN <<Call("DeleteTextures", "", 1, <<old[1].id>>)>>
                     ELSE <<>>
            rest  == [n \in DOMAIN textures \ {name} |-> textures[n]]
            live  == DeleteTextures(glTextures, UNION {Range(c.ids) : c \in Range(evict)})
        IN  IF r.ret = None
            THEN /\ last' = Op("load_texture", name, inp, TRUE, None, evict \o r.calls)
                 /\ textures' = rest
                 /\ glTextures' = live
            ELSE /\ textures' = TableInsert(rest, name, r.ret[1])
                 /\ glTextures' = live \cup r.created
                 /\ last' = Op("load_texture", name, inp, TRUE, Some(r.ret[1]),
                                evict \o r.calls)
    /\ UNCHANGED <<shaders, glPrograms, running, cargs, dargs, model,
                 poisoned, lockErrs, rendVars, frameVars, threadVars>>

(* ResourceManager::load_texture(gl, name, file, alpha) -> Option<Texture>. *)
(* GenTextures hands out any texture name that is not live.                 *)
(* self.textures.lock().ok()? returns None when the Mutex is poisoned: the   *)
(* texture just uploaded is neither stored nor deleted.                      *)
load_texture(name, file, alpha) ==
    /\ running
    /\ lockErrs' = <<>>
    /\ \E r \in {load_texture_internal(file, alpha, tid) : tid \in TextureIds \ glTextures} :
        LET old == TableGet(textures, name)
            inp == [file |-> file, alpha |-> alpha]
        IN  IF r.ret = None
            THEN /\ last' = Op("load_texture", name, inp, TRUE, None, r.calls)
                 /\ UNCHANGED <<textures, glTextures>>
            ELSE IF "textures" \in poisoned
            THEN /\ last' = Op("load_texture", name, inp, TRUE, None, r.calls)
                 /\ glTextures' = glTextures \cup r.created
                 /\ UNCHANGED textures
            ELSE LET loaded == r.ret[1]
                     evict  == EvictTextureCalls(old, loaded)
                 IN  /\ textures' = TableInsert(textures, name, loaded)
                     /\ glTextures' = DeleteTextures(glTextures \cup r.created,
                                                     UNION {Range(c.ids) : c \in Range(evict)})
                     /\ last' = Op("load_texture", name, inp, TRUE, Some(loaded),
                                    r.calls \o evict)

LoadTexture(name, file, alpha) ==
    /\ load_texture(name, file, alpha)
    /\ UNCHANGED <<shaders, glPrograms, running, cargs, dargs, model,
                 poisoned, rendVars, frameVars, threadVars>>

(* Faulty variant of GetTexture: HashMap::remove in place of HashMap::get *)
GetTextureTake(name) ==
    /\ running
    /\ last' = Op("get_texture", name, <<>>, TRUE, TableGet(textures, name), <<>>)
    /\ textures' = [n \in DOMAIN textures \ {name} |-> textures[n]]
    /\ UNCHANGED <<shaders, glPrograms, glTextures, running, cargs, dargs, model,
                 poisoned, lockErrs, rendVars, frameVars, threadVars>>

(* ResourceManager::get_texture(gl, name) -> Option<Texture> *)
get_texture(name) ==
    /\ running
    /\ lockErrs' = <<>>
    /\ last' = Op("get_texture", name, <<>>, TRUE,
                  IF "textures" \in poisoned THEN None ELSE TableGet(textures, name), <<>>)

GetTexture(name) ==
    /\ get_texture(name)
    /\ UNCHANGED <<shaders, textures, glPrograms, glTextures, running, cargs, dargs, model,
                 poisoned, rendVars, frameVars, threadVars>>

(* Faulty variant of DisposeAll: the textures are deleted one call each, *)
(* as the shaders are, instead of in one batch.                          *)
DisposeAllOneByOne(sorder, torder) ==
    /\ running
    /\ sorder \in Perms(DOMAIN shaders)
    /\ torder \in Perms(DOMAIN textures)
    /\ LET sdel == [i \in 1..Len(sorder) |->
                       Call("DeleteProgram", "", shaders[sorder[i]].id, <<>>)]
           tdel == [i \in 1..Len(torder) |->
                       Call("DeleteTextures", "", 1, <<textures[torder[i]].id>>)]
       IN  /\ shaders' = Empty
           /\ textures' = Empty
           /\ glPrograms' = DeletePrograms(glPrograms, {c.id : c \in Range(sdel)})
           /\ glTextures' = DeleteTextures(glTextures, {textures[n].id : n \in DOMAIN textures})
           /\ last' = Op("dispose_all", "", <<>>, TRUE, None, sdel \o tdel)
    /\ UNCHANGED <<running, cargs, dargs, model,
                 poisoned, lockErrs, rendVars, frameVars, threadVars>>

(* ResourceManager::dispose_all(gl).  HashMap::drain yields the entries in *)
(* an unspecified order: sorder and torder are the orders it happens to    *)
(* use for the two tables.  A table whose Mutex is poisoned is not drained: *)
(* the else branch writes "Failed to lock shaders" to stderr, for either    *)
(* table.                                                                   *)
Drained(table, which) == IF which \in poisoned THEN {} ELSE DOMAIN table

dispose_all(sorder, torder) ==
    /\ running
    /\ sorder \in Perms(Drained(shaders, "shaders"))
    /\ torder \in Perms(Drained(textures, "textures"))
    /\ LET sdel == [i \in 1..Len(sorder) |->
                       Call("DeleteProgram", "", shaders[sorder[i]].id, <<>>)]
           ids  == [i \in 1..Len(torder) |-> textures[torder[i]].id]
           tdel == IF "textures" \in poisoned THEN <<>>
                   ELSE <<Call("DeleteTextures", "", Len(ids), ids)>>
       IN  /\ shaders' = IF "shaders" \in poisoned THEN shaders ELSE Empty
           /\ textures' = IF "textures" \in poisoned THEN textures ELSE Empty
           /\ glPrograms' = DeletePrograms(glPrograms, {c.id : c \in Range(sdel)})
           /\ glTextures' = DeleteTextures(glTextures, Range(ids))
           /\ lockErrs' = (IF "shaders" \in poisoned
                           THEN <<"Failed to lock shaders">> ELSE <<>>)
                          \o (IF "textures" \in poisoned
                              THEN <<"Failed to lock shaders">> ELSE <<>>)
           /\ last' = Op("dispose_all", "", <<>>, TRUE, None, sdel \o tdel)

DisposeAll(sorder, torder) ==
    /\ dispose_all(sorder, torder)
    /\ UNCHANGED <<running, cargs, dargs, model,
                 poisoned, rendVars, frameVars, threadVars>>

(* load_shader on a thread whose eprintln! (resman.rs:64) panics, as it  *)
(* does when stderr cannot be written: the guard of shaders.lock() is    *)
(* alive, the new entry is in the table, the old program is not deleted, *)
(* the thread unwinds and the Mutex is poisoned.                         *)
load_shader_panics(name, args, drivers) ==
    /\ running
    /\ "shaders" \notin poisoned
    /\ TableGet(shaders, name) # None
    /\ \E r \in load_shader_internal(args, {d \in drivers : d.pid \notin glPrograms}) :
        /\ r.returned /\ r.ret # None
        /\ shaders' = TableInsert(shaders, name, r.ret[1])
        /\ glPrograms' = glPrograms \cup r.created
        /\ last' = Op("load_shader", name, args, FALSE, None, r.calls)
    /\ poisoned' = poisoned \cup {"shaders"}
    /\ lockErrs' = <<>>

LoadShaderPanics(name, args, drivers) ==
    /\ load_shader_panics(name, args, drivers)
    /\ UNCHANGED <<textures, glTextures, running, cargs, dargs, model,
                   rendVars, frameVars, threadVars>>

(* load_texture likewise (resman.rs:104) *)
load_texture_panics(name, file, alpha) ==
    /\ running
    /\ "textures" \notin poisoned
    /\ TableGet(textures, name) # None
    /\ \E r \in {load_texture_internal(file, alpha, tid) : tid \in TextureIds \ glTextures} :
        /\ r.ret # None
        /\ textures' = TableInsert(textures, name, r.ret[1])
        /\ glTextures' = glTextures \cup r.created
        /\ last' = Op("load_texture", name, [file |-> file, alpha |-> alpha], FALSE, None,
                      r.calls)
    /\ poisoned' = poisoned \cup {"textures"}
    /\ lockErrs' = <<>>

LoadTexturePanics(name, file, alpha) ==
    /\ load_texture_panics(name, file, alpha)
    /\ UNCHANGED <<shaders, glPrograms, running, cargs, dargs, model,
                   rendVars, frameVars, threadVars>>

-----------------------------------------------------------------------------
(* The cache under sequential use *)

(* The parts of the state an operation of another component leaves alone, *)
(* as they are before that component exists.                               *)
Tables == {"shaders", "textures"}
NoRenderer == [shader |-> [id |-> 0], quad_vao |-> 0, quad_vbo |-> 0]
NoGame == [state |-> "none", keys |-> {}]
NoFrame == [iterations |-> 0, steps |-> <<>>, done |-> <<>>, polled |-> "none",
            closes |-> 0, shader |-> [id |-> 0], face |-> [id |-> 0], game |-> NoGame]
NoThreads == [t \in {} |-> 0]
NoOwner == [l \in Tables |-> <<>>]
NoCell == [state |-> "uninit", inits |-> 0]

IdlePoison == poisoned = {} /\ lockErrs = <<>>
IdleRenderer == renderer = NoRenderer /\ glVaos = {} /\ glBufs = {}
IdleFrame == pc = "off" /\ input_status = "Continue" /\ events = <<>> /\ frame = NoFrame
IdleThreads == threads = NoThreads /\ lockOwner = NoOwner /\ cell = NoCell

NoOp == [op |-> "init", name |-> "", input |-> <<>>, returned |-> TRUE,
         ret |-> None, calls |-> <<>>,
         pre |-> [shaders |-> Empty, textures |-> Empty, glPrograms |-> {}, glTextures |-> {}]]

(* ResourceManager::initialize: both tables empty *)
initialize ==
    /\ shaders = Empty
    /\ textures = Empty

NoArgs == from_sources(<<>>, <<>>, None)
NoDraw == [texture |-> [id |-> 0], pos |-> <<0, 0>>, size |-> <<0, 0>>, rotate |-> 0]
NoModel == <<>>

InitCache ==
    /\ initialize
    /\ glPrograms = {}
    /\ glTextures = {}
    /\ running = TRUE
    /\ last = NoOp
    /\ cargs = NoArgs
    /\ dargs = NoDraw
    /\ model = NoModel
    /\ IdlePoison /\ IdleRenderer /\ IdleFrame /\ IdleThreads

(* The compile inputs the cache is exercised with: sources that are valid, *)
(* and sources with a zero byte in each of the three positions.            *)
SampleArgs ==
    {from_sources(<<65>>, <<65>>, None),
     from_sources(<<65>>, <<65>>, Some(<<65>>)),
     from_sources(<<65, NUL>>, <<65>>, None),
     from_sources(<<65>>, <<NUL, 65>>, None),
     from_sources(<<65>>, <<65>>, Some(<<NUL>>))}

(* ... and the driver answers: all stages fine, a stage failing, the link *)
(* failing; the stage objects named 1, 2, 3; any program name.            *)
SampleStatuses ==
    {AllOk, [AllOk EXCEPT !.vertex = 0], [AllOk EXCEPT !.program = 0]}

SampleStageNames == [s \in {"vertex", "fragment", "geometry"} |->
                        CASE s = "vertex" -> 1 [] s = "fragment" -> 2 [] s = "geometry" -> 3]

SampleDrivers == {d \in AllDrivers : d.st \in SampleStatuses /\ d.so = SampleStageNames}

NextCache ==
    \/ \E name \in Names, args \in SampleArgs : LoadShader(name, args, SampleDrivers)
    \/ \E name \in Names : GetShader(name)
    \/ \E name \in Names, file \in Paths, alpha \in BOOLEAN : LoadTexture(name, file, alpha)
    \/ \E name \in Names : GetTexture(name)
    \/ \E sorder \in Perms(DOMAIN shaders), torder \in Perms(DOMAIN textures) :
            DisposeAll(sorder, torder)

SpecCache == InitCache /\ [][NextCache]_vars

-----------------------------------------------------------------------------
(* The shader pipeline applied once, on a fresh context, to every compile *)
(* input within the bounds and under every driver answer.                  *)

(* let mut shader = Shader::new(); shader.compile(gl, args) *)
ShaderCompile(args, drivers) ==
    /\ running
    /\ \E c \in compile(ShaderNew, args, {d \in drivers : d.pid \notin glPrograms}) :
        /\ last' = Op("compile", "", args, c.returned,
                      IF c.returned THEN Some([ok |-> c.ret, shader |-> [id |-> c.id]]) ELSE None,
                      c.calls)
        /\ glPrograms' = glPrograms \cup c.created
        /\ running' = c.returned
    /\ UNCHANGED <<shaders, textures, glTextures, cargs, dargs, model,
                 poisoned, lockErrs, rendVars, frameVars, threadVars>>

(* ResourceManager::load_shader_internal(gl, args), called on its own *)
LoadShaderInternal(args, drivers) ==
    /\ running
    /\ \E r \in load_shader_internal(args, {d \in drivers : d.pid \notin glPrograms}) :
        /\ last' = Op("load_shader_internal", "", args, r.returned, r.ret, r.calls)
        /\ glPrograms' = glPrograms \cup r.created
        /\ running' = r.returned
    /\ UNCHANGED <<shaders, textures, glTextures, cargs, dargs, model,
                 poisoned, lockErrs, rendVars, frameVars, threadVars>>

InitCompile ==
    /\ initialize
    /\ glPrograms = {}
    /\ glTextures = {}
    /\ running = TRUE
    /\ last = NoOp
    /\ cargs \in ShaderArgs
    /\ dargs = NoDraw
    /\ model = NoModel
    /\ IdlePoison /\ IdleRenderer /\ IdleFrame /\ IdleThreads

NextCompile ==
    /\ last.op = "init"
    /\ \/ ShaderCompile(cargs, AllDrivers)
       \/ LoadShaderInternal(cargs, AllDrivers)
       \/ \E name \in Names : LoadShader(name, cargs, AllDrivers)

SpecCompile == InitCompile /\ [][NextCompile]_vars

-----------------------------------------------------------------------------
(* mod.rs util: the matrix helpers.  A Mat4F is its four columns x, y, z, *)
(* w (cgmath is column-major; matrix[0] is x, matrix[2] is z), a column a  *)
(* 4-tuple.  Numbers are integers: the inputs are chosen so that every     *)
(* f32 operation of the code is exact on them (sizes are even, rotations   *)
(* are quarter turns).                                                     *)

V4Add(a, b) == <<a[1] + b[1], a[2] + b[2], a[3] + b[3], a[4] + b[4]>>
V4Scale(a, k) == <<a[1] * k, a[2] * k, a[3] * k, a[4] * k>>

(* Mat4F::identity() *)
Mat4Identity ==
    [x |-> <<1, 0, 0, 0>>, y |-> <<0, 1, 0, 0>>, z |-> <<0, 0, 1, 0>>, w |-> <<0, 0, 0, 1>>]

(* util::mat4_translate_in(matrix, vec) *)
mat4_translate_in(matrix, vec) ==
    [matrix EXCEPT !.w = V4Add(V4Add(V4Add(V4Scale(matrix.x, vec[1]),
                                           V4Scale(matrix.y, vec[2])),
                                     V4Scale(matrix.z, vec[3])),
                               matrix.w)]

(* f32::to_radians, cos and sin on the quarter turns, given in degrees *)
QuarterTurns == {0, 90, 180, 270}
Cos(deg) == CASE deg = 0 -> 1 [] deg = 90 -> 0 [] deg = 180 -> -1 [] deg = 270 -> 0
Sin(deg) == CASE deg = 0 -> 0 [] deg = 90 -> 1 [] deg = 180 -> 0 [] deg = 270 -> -1

Abs(n) == IF n < 0 THEN -n ELSE n

(* Vec3F::normalize on an axis-aligned vector, whose length is the sum of *)
(* the magnitudes of its components                                        *)
Normalize(vec) ==
    LET mag == Abs(vec[1]) + Abs(vec[2]) + Abs(vec[3])
    IN  <<vec[1] \div mag, vec[2] \div mag, vec[3] \div mag>>

(* util::mat4_rotate(matrix, angle, vec) *)
mat4_rotate(matrix, angle, vec) ==
    LET c == Cos(angle)
        s == Sin(angle)
        axis == Normalize(vec)
        temp == <<axis[1] * (1 - c), axis[2] * (1 - c), axis[3] * (1 - c)>>
        r00 == c + temp[1] * axis[1]
        r01 == temp[1] * axis[2] + s * axis[3]
        r02 == temp[1] * axis[3] - s * axis[2]
        r10 == temp[2] * axis[1] - s * axis[3]
        r11 == c + temp[2] * axis[2]
        r12 == temp[2] * axis[3] + s * axis[1]
        r20 == temp[3] * axis[1] + s * axis[2]
        r21 == temp[3] * axis[2] - s * axis[1]
        r22 == c + temp[3] * axis[3]
    IN  [x |-> V4Add(V4Add(V4Scale(matrix.x, r00), V4Scale(matrix.y, r01)), V4Scale(matrix.z, r02)),
         y |-> V4Add(V4Add(V4Scale(matrix.x, r10), V4Scale(matrix.y, r11)), V4Scale(matrix.z, r12)),
         z |-> V4Add(V4Add(V4Scale(matrix.x, r20), V4Scale(matrix.y, r21)), V4Scale(matrix.z, r22)),
         w |-> matrix.w]

(* util::mat4_rotate_in(matrix, angle, vec) *)
mat4_rotate_in(matrix, angle, vec) == mat4_rotate(matrix, angle, vec)

(* util::mat4_scale_in(matrix, vec) *)
mat4_scale_in(matrix, vec) ==
    [matrix EXCEPT !.x = V4Scale(matrix.x, vec[1]),
                   !.y = V4Scale(matrix.y, vec[2]),
                   !.z = V4Scale(matrix.z, vec[3])]

(* matrix * (v1, v2, v3, v4): the image of a point in homogeneous coordinates *)
Mat4Apply(matrix, v) ==
    V4Add(V4Add(V4Add(V4Scale(matrix.x, v[1]), V4Scale(matrix.y, v[2])),
                V4Scale(matrix.z, v[3])),
          V4Scale(matrix.w, v[4]))

-----------------------------------------------------------------------------
(* render.rs: SpriteRenderer::draw_sprite *)

(* args.size() * 0.5, exact on the even sizes used *)
HalfSize(size) == <<size[1] \div 2, size[2] \div 2>>

(* Vector2::extend(z) *)
Extend(v, z) == <<v[1], v[2], z>>

(* the model matrix with the scaling applied before the rotation *)
ModelMatrixScaleFirst(args) ==
    LET translate1 == Extend(args.pos, 0)
        translate2 == Extend(HalfSize(args.size), 0)
        rotate == <<0, 0, 1>>
        scale == Extend(args.size, 1)
        m1 == mat4_translate_in(Mat4Identity, translate1)
        m2 == CHOOSE r \in {mat4_translate_in(m, translate2) : m \in {m1}} : TRUE
        m3 == CHOOSE r \in {mat4_scale_in(m, scale) : m \in {m2}} : TRUE
        m4 == CHOOSE r \in {mat4_rotate_in(m, args.rotate, rotate) : m \in {m3}} : TRUE
    IN  m4

(* the model matrix draw_sprite builds (render.rs 80-89); `model` is a *)
(* value when the next statement reads it                              *)
ModelMatrix(args) ==
    LET translate1 == Extend(args.pos, 0)
        translate2 == Extend(HalfSize(args.size), 0)
        rotate == <<0, 0, 1>>
        scale == Extend(args.size, 1)
        m1 == mat4_translate_in(Mat4Identity, translate1)
        m2 == CHOOSE r \in {mat4_translate_in(m, translate2) : m \in {m1}} : TRUE
        m3 == CHOOSE r \in {mat4_rotate_in(m, args.rotate, rotate) : m \in {m2}} : TRUE
        m4 == CHOOSE r \in {mat4_scale_in(m, scale) : m \in {m3}} : TRUE
    IN  m4

(* Shader::set_main(gl) *)
set_main(shader) == <<Call("UseProgram", "", shader.id, <<>>)>>

(* success() and failure(): ShaderSetResult is Option<()> *)
success == Some([unit |-> TRUE])
failure == None

(* CString::new(name.as_bytes()): an error when the name holds a zero byte *)
to_cstring(name) == IF \E k \in DOMAIN name : name[k] = NUL THEN None ELSE Some(name)

(* The setters' body with the activation moved behind the location lookup *)
SetUniformActivatesLast(upload, lowest, shader, name, loc, use_shader) ==
    LET activate == IF use_shader THEN set_main(shader) ELSE <<>>
        lookup == <<Call("GetUniformLocation", name, shader.id, <<loc>>)>>
    IN  IF to_cstring(name) = None
        THEN [ret |-> failure, calls |-> activate]
        ELSE IF loc < lowest
             THEN [ret |-> failure, calls |-> lookup \o activate]
             ELSE [ret |-> success,
                   calls |-> lookup \o activate \o <<Call(upload, name, shader.id, <<loc>>)>>]

(* The body the uniform setters share (shader.rs 250-493): optional       *)
(* activation, the conversion of the name, the location lookup, the test  *)
(* of the location, the upload.  loc is the driver's answer; lowest is    *)
(* the least location the setter's test lets through (`location < 1` in   *)
(* set_float, `location < 0` in the others).                              *)
SetUniform(upload, lowest, shader, name, loc, use_shader) ==
    LET activate == IF use_shader THEN set_main(shader) ELSE <<>>
        lookup == <<Call("GetUniformLocation", name, shader.id, <<loc>>)>>
    IN  IF to_cstring(name) = None
        THEN [ret |-> failure, calls |-> activate]
        ELSE IF loc < lowest
             THEN [ret |-> failure, calls |-> activate \o lookup]
             ELSE [ret |-> success,
                   calls |-> activate \o lookup \o <<Call(upload, name, shader.id, <<loc>>)>>]

(* Shader::set_integer with the test of set_float *)
set_integer_off_by_one(shader, name, loc, use_shader) ==
    SetUniform("Uniform1i", 1, shader, name, loc, use_shader)

(* Shader::set_float: `if location < 1` (shader.rs:271) *)
set_float(shader, name, loc, use_shader) ==
    SetUniform("Uniform1f", 1, shader, name, loc, use_shader)

(* Shader::set_integer: `if location < 0` (shader.rs:300) *)
set_integer(shader, name, loc, use_shader) ==
    SetUniform("Uniform1i", 0, shader, name, loc, use_shader)

set_vector2f(shader, name, loc, use_shader) ==
    SetUniform("Uniform2f", 0, shader, name, loc, use_shader)

set_vector3f(shader, name, loc, use_shader) ==
    SetUniform("Uniform3f", 0, shader, name, loc, use_shader)

set_vector4f(shader, name, loc, use_shader) ==
    SetUniform("Uniform4f", 0, shader, name, loc, use_shader)

set_matrix4f(shader, name, loc, use_shader) ==
    SetUniform("UniformMatrix4fv", 0, shader, name, loc, use_shader)

set_matrix4f_from(shader, name, loc, use_shader) ==
    SetUniform("UniformMatrix4fv", 0, shader, name, loc, use_shader)

set_matrix4f_from_ptr(shader, name, loc, use_shader) ==
    SetUniform("UniformMatrix4fv", 0, shader, name, loc, use_shader)

(* The uniform names the program passes, as name.as_bytes() gives them *)
UniformModel == <<109, 111, 100, 101, 108>>
UniformSpriteColor == <<115, 112, 114, 105, 116, 101, 67, 111, 108, 111, 114>>
UniformImage == <<105, 109, 97, 103, 101>>
UniformProjection == <<112, 114, 111, 106, 101, 99, 116, 105, 111, 110>>

(* Texture::bind(gl) *)
TextureBind(texture) == <<Call("BindTexture", "GL_TEXTURE_2D", texture.id, <<>>)>>

(* The SpriteRenderer the draws go through, as SpriteRenderer::new left it *)
Renderer == [shader |-> [id |-> 1], quad_vao |-> 1, quad_vbo |-> 1]

UniformLocations == {0 - 1, 0, 1}

(* draw_sprite without the closing BindVertexArray(0) *)
draw_sprite_keeps_vao(self, args) ==
    /\ running
    /\ \E locModel \in UniformLocations, locColor \in UniformLocations :
        /\ model' = ModelMatrix(args)
        /\ last' = Op("draw_sprite", "", args, TRUE, None,
                      set_main(self.shader)
                      \o set_matrix4f_from(self.shader, UniformModel, locModel, FALSE).calls
                      \o set_vector3f(self.shader, UniformSpriteColor, locColor, FALSE).calls
                      \o <<Call("ActiveTexture", "GL_TEXTURE0", 0, <<>>)>>
                      \o TextureBind(args.texture)
                      \o <<Call("BindVertexArray", "", self.quad_vao, <<>>),
                           Call("DrawArrays", "GL_TRIANGLES", 0, <<0, 16>>)>>)

(* SpriteRenderer::draw_sprite(gl, args) *)
draw_sprite(self, args) ==
    /\ running
    /\ \E locModel \in UniformLocations, locColor \in UniformLocations :
        /\ model' = ModelMatrix(args)
        /\ last' = Op("draw_sprite", "", args, TRUE, None,
                      set_main(self.shader)
                      \o set_matrix4f_from(self.shader, UniformModel, locModel, FALSE).calls
                      \o set_vector3f(self.shader, UniformSpriteColor, locColor, FALSE).calls
                      \o <<Call("ActiveTexture", "GL_TEXTURE0", 0, <<>>)>>
                      \o TextureBind(args.texture)
                      \o <<Call("BindVertexArray", "", self.quad_vao, <<>>),
                           Call("DrawArrays", "GL_TRIANGLES", 0, <<0, 16>>),
                           Call("BindVertexArray", "", 0, <<>>)>>)

DrawSprite(self, args) ==
    /\ draw_sprite(self, args)
    /\ UNCHANGED <<shaders, textures, glPrograms, glTextures, running, cargs, dargs,
                 poisoned, lockErrs, rendVars, frameVars, threadVars>>

Coords == (0 - 1)..MaxCoord
Sizes == {2 * k : k \in 1..MaxHalfSize}
DrawArgs == [texture : {[id |-> 1]}, pos : Coords \X Coords, size : Sizes \X Sizes,
             rotate : QuarterTurns]

InitSprite ==
    /\ initialize
    /\ glPrograms = {}
    /\ glTextures = {}
    /\ running = TRUE
    /\ last = NoOp
    /\ cargs = NoArgs
    /\ dargs \in DrawArgs
    /\ model = NoModel
    /\ renderer = Renderer /\ glVaos = {Renderer.quad_vao} /\ glBufs = {Renderer.quad_vbo}
    /\ IdlePoison /\ IdleFrame /\ IdleThreads

NextSprite == DrawSprite(renderer, dargs)

SpecSprite == InitSprite /\ [][NextSprite]_vars

-----------------------------------------------------------------------------
(* Vocabulary of the properties.  They are stated on the record of the     *)
(* last operation and on the state it was called in (last.pre) and left.   *)

CallIndices(fn) == {k \in DOMAIN last.calls : last.calls[k].fn = fn}
CallIndicesOn(fn, id) == {k \in CallIndices(fn) : last.calls[k].id = id}

ShaderLoaded == last.op = "load_shader" /\ last.returned /\ last.ret # None
TextureLoaded == last.op = "load_texture" /\ last.returned /\ last.ret # None

(* get(name) on a table, written out: the entry when there is one *)
Lookup(table, name) == IF name \in DOMAIN table THEN <<table[name]>> ELSE <<>>

Ids(table) == {table[n].id : n \in DOMAIN table}

(* C1 as stated: for any name N, once load_shader(N, A) has succeeded with  *)
(* id i, get_shader(N) returns id i until a later load_shader(N, _)         *)
(* succeeds; that load deletes program i on the GPU and get_shader(N)       *)
(* returns its id j from then on.  Step by step: a successful load leaves   *)
(* its handle under N; get_shader returns what is under N and changes       *)
(* nothing; any operation that is not a successful load_shader(N) leaves    *)
(* N's handle in place; a successful load over a cached handle deletes the  *)
(* old program.                                                             *)
C1_Original ==
    /\ ShaderLoaded => Lookup(shaders, last.name) = last.ret
    /\ last.op = "get_shader" =>
          /\ last.ret = Lookup(last.pre.shaders, last.name)
          /\ shaders = last.pre.shaders
    /\ \A N \in DOMAIN last.pre.shaders :
          ~(ShaderLoaded /\ last.name = N) =>
              Lookup(shaders, N) = <<last.pre.shaders[N]>>
    /\ (ShaderLoaded /\ last.name \in DOMAIN last.pre.shaders) =>
          LET i == last.pre.shaders[last.name].id
              j == last.ret[1].id
          IN  /\ i # j
              /\ CallIndicesOn("DeleteProgram", i) # {}
              /\ i \notin glPrograms
              /\ j \in glPrograms
              /\ shaders[last.name].id = j

(* C1, amended: ... until a later load_shader(N, _) succeeds or dispose_all *)
(* is called; after dispose_all get_shader(N) returns empty until the next  *)
(* successful load_shader(N, _).                                            *)
C1_Amended ==
    /\ ShaderLoaded => Lookup(shaders, last.name) = last.ret
    /\ last.op = "get_shader" =>
          /\ last.ret = Lookup(last.pre.shaders, last.name)
          /\ shaders = last.pre.shaders
    /\ \A N \in DOMAIN last.pre.shaders :
          (~(ShaderLoaded /\ last.name = N) /\ last.op # "dispose_all") =>
              Lookup(shaders, N) = <<last.pre.shaders[N]>>
    /\ last.op = "dispose_all" => \A N \in Names : Lookup(shaders, N) = <<>>
    /\ (ShaderLoaded /\ last.name \in DOMAIN last.pre.shaders) =>
          LET i == last.pre.shaders[last.name].id
              j == last.ret[1].id
          IN  /\ i # j
              /\ CallIndicesOn("DeleteProgram", i) # {}
              /\ i \notin glPrograms
              /\ j \in glPrograms
              /\ shaders[last.name].id = j

(* a successful load_shader over a name that already held a shader *)
C1_Witness ==
    /\ ShaderLoaded
    /\ last.name \in DOMAIN last.pre.shaders
    /\ last.pre.shaders[last.name].id \notin glPrograms
    /\ shaders[last.name].id = last.ret[1].id

(* C2: each table holds at most one resource per name (every live GPU      *)
(* object of a kind is the resource of exactly one name), and a load under  *)
(* an existing name evicts the prior resource, deleting it on the GPU       *)
(* exactly when its id differs from the new id, by the time the new         *)
(* resource is what a get for that name returns.                            *)
C2_OnePerNameEvict ==
    /\ running =>
          /\ glPrograms = Ids(shaders)
          /\ Cardinality(glPrograms) = Cardinality(DOMAIN shaders)
          /\ glTextures = Ids(textures)
          /\ Cardinality(glTextures) = Cardinality(DOMAIN textures)
    /\ ShaderLoaded =>
          /\ Lookup(shaders, last.name) = last.ret
          /\ IF last.name \in DOMAIN last.pre.shaders
             THEN LET old == last.pre.shaders[last.name].id
                  IN  /\ (CallIndicesOn("DeleteProgram", old) # {}) <=> (old # last.ret[1].id)
                      /\ Cardinality(CallIndices("DeleteProgram")) <= 1
                      /\ old # last.ret[1].id => old \notin glPrograms
             ELSE CallIndices("DeleteProgram") = {}
    /\ TextureLoaded =>
          /\ Lookup(textures, last.name) = last.ret
          /\ IF last.name \in DOMAIN last.pre.textures
             THEN LET old == last.pre.textures[last.name].id
                      del == {k \in CallIndices("DeleteTextures") : last.calls[k].ids = <<old>>}
                  IN  /\ (del # {}) <=> (old # last.ret[1].id)
                      /\ CallIndices("DeleteTextures") = del
                      /\ Cardinality(del) <= 1
                      /\ old # last.ret[1].id => old \notin glTextures
             ELSE CallIndices("DeleteTextures") = {}

(* a successful load_texture over a name that already held a texture *)
C2_Witness ==
    /\ TextureLoaded
    /\ last.name \in DOMAIN last.pre.textures
    /\ last.pre.textures[last.name].id # last.ret[1].id
    /\ CallIndices("DeleteTextures") # {}
    /\ DOMAIN shaders # {}

(* C3: dispose_all leaves both tables empty, issues exactly one program    *)
(* delete per distinct cached shader id, and exactly one batched texture   *)
(* delete whose id list is exactly the set of the cached texture ids.      *)
C3_DisposeAll ==
    last.op = "dispose_all" =>
        /\ shaders = [n \in {} |-> 0]
        /\ textures = [n \in {} |-> 0]
        /\ \A i \in Ids(last.pre.shaders) :
              Cardinality(CallIndicesOn("DeleteProgram", i)) = 1
        /\ Cardinality(CallIndices("DeleteProgram")) = Cardinality(Ids(last.pre.shaders))
        /\ Cardinality(CallIndices("DeleteTextures")) = 1
        /\ \A k \in CallIndices("DeleteTextures") :
              LET ids == last.calls[k].ids
              IN  /\ {ids[x] : x \in DOMAIN ids} = Ids(last.pre.textures)
                  /\ Len(ids) = Cardinality(Ids(last.pre.textures))
                  /\ last.calls[k].id = Len(ids)
        /\ glPrograms = last.pre.glPrograms \ Ids(last.pre.shaders)
        /\ glTextures = last.pre.glTextures \ Ids(last.pre.textures)

(* dispose_all called with two shaders and two textures cached *)
C3_Witness ==
    /\ last.op = "dispose_all"
    /\ Cardinality(Ids(last.pre.shaders)) = 2
    /\ Cardinality(Ids(last.pre.textures)) = 2

(* C4: load_texture with a path that does not exist returns empty and      *)
(* leaves the texture table as it was: what was cached under the name is   *)
(* still there, an absent name stays absent.                               *)
C4_MissingPath ==
    (last.op = "load_texture" /\ ~Files[last.input.file].exists) =>
        /\ last.returned
        /\ last.ret = <<>>
        /\ Lookup(textures, last.name) = Lookup(last.pre.textures, last.name)
        /\ textures = last.pre.textures

(* a load from a missing path under a name that holds a texture *)
C4_Witness ==
    /\ last.op = "load_texture"
    /\ ~Files[last.input.file].exists
    /\ last.name \in DOMAIN textures

(* C5: load_texture returns empty when the image fails to decode or is     *)
(* decoded as floating point; no GPU texture is allocated and the texture  *)
(* table is unchanged.                                                     *)
C5_DecodeFailure ==
    (last.op = "load_texture" /\ Files[last.input.file].load \in {"Error", "ImageF32"}) =>
        /\ last.returned
        /\ last.ret = <<>>
        /\ CallIndices("GenTextures") = {}
        /\ last.calls = <<>>
        /\ glTextures = last.pre.glTextures
        /\ textures = last.pre.textures

(* a floating-point image loaded under a name that holds a texture *)
C5_Witness ==
    /\ last.op = "load_texture"
    /\ Files[last.input.file].load = "ImageF32"
    /\ last.name \in DOMAIN textures

(* C6: of two successive successful load_texture calls under one name with *)
(* the same image path, the second returns an id different from the        *)
(* first's, and the first id is deleted by the time the second returns.    *)
C6_ReloadTexture ==
    [][(/\ TextureLoaded
        /\ TextureLoaded'
        /\ last'.name = last.name
        /\ last'.input.file = last.input.file)
       => (/\ last'.ret[1].id # last.ret[1].id
           /\ last.ret[1].id \notin glTextures'
           /\ \E k \in DOMAIN last'.calls :
                 /\ last'.calls[k].fn = "DeleteTextures"
                 /\ last'.calls[k].ids = <<last.ret[1].id>>)]_vars

(* a second successful load of the same image under the same name *)
C6_Witness ==
    /\ TextureLoaded
    /\ last.input.file = "face.png"
    /\ last.name \in DOMAIN last.pre.textures
    /\ last.pre.textures[last.name].size = last.ret[1].size
    /\ last.pre.textures[last.name].opts = last.ret[1].opts

ContainsNul(src) == \E k \in DOMAIN src : src[k] = 0
ArgsContainNul(args) ==
    \/ ContainsNul(args.vertex_source)
    \/ ContainsNul(args.fragment_source)
    \/ (args.geometry_source # <<>> /\ ContainsNul(args.geometry_source[1]))

(* C7: when the vertex, the fragment or the geometry source holds a zero   *)
(* byte, is_cstr_valid is false and Shader::compile, load_shader_internal  *)
(* and load_shader fail without a single GPU call.                         *)
C7_NulRejected ==
    ArgsContainNul(cargs) =>
        /\ ~is_cstr_valid(cargs)
        /\ last.op \in {"compile", "load_shader_internal", "load_shader"} =>
              /\ last.input = cargs
              /\ last.returned
              /\ last.calls = <<>>
              /\ glPrograms = {}
              /\ shaders = [n \in {} |-> 0]
              /\ IF last.op = "compile"
                 THEN last.ret = <<[ok |-> FALSE, shader |-> [id |-> 0]]>>
                 ELSE last.ret = <<>>

(* load_shader called with a zero byte in the geometry source only *)
C7_Witness ==
    /\ last.op = "load_shader"
    /\ ~ContainsNul(cargs.vertex_source)
    /\ ~ContainsNul(cargs.fragment_source)
    /\ cargs.geometry_source # <<>>
    /\ Len(cargs.geometry_source[1]) = 2
    /\ cargs.geometry_source[1][2] = 0

UpstreamFailure ==
    \E k \in DOMAIN last.calls :
        /\ last.calls[k].fn \in {"GetShaderiv", "GetProgramiv"}
        /\ last.calls[k].ids = <<0>>

(* C8: load_shader returns empty, and inserts nothing into the shader      *)
(* table, when the compilation of a stage or the link of the program fails *)
(* upstream.                                                               *)
C8_UpstreamFailure ==
    (last.op = "load_shader" /\ last.returned /\ UpstreamFailure) =>
        /\ last.ret = <<>>
        /\ shaders = last.pre.shaders

(* C9: get_shader(N) and get_texture(N) return empty when N is absent      *)
(* (as on an empty cache) and a copy of the cached handle otherwise; they  *)
(* modify neither table and issue no GPU call.                             *)
C9_GetIsPure ==
    /\ last.op = "get_shader" => last.ret = Lookup(last.pre.shaders, last.name)
    /\ last.op = "get_texture" => last.ret = Lookup(last.pre.textures, last.name)
    /\ last.op \in {"get_shader", "get_texture"} =>
          /\ last.returned
          /\ shaders = last.pre.shaders
          /\ textures = last.pre.textures
          /\ last.calls = <<>>
          /\ glPrograms = last.pre.glPrograms
          /\ glTextures = last.pre.glTextures

(* get_texture finding the handle while the other name is absent *)
C9_Witness ==
    /\ last.op = "get_texture"
    /\ last.ret # <<>>
    /\ last.ret[1].id \in glTextures
    /\ Cardinality(DOMAIN textures) = 1

(* C10: with rotation 0, the model matrix of draw_sprite maps the unit     *)
(* quad's corner (0,0) to the position P and its corner (1,1) to P + S.    *)
C10_CornersAtPosition ==
    (last.op = "draw_sprite" /\ dargs.rotate = 0) =>
        /\ Mat4Apply(model, <<0, 0, 0, 1>>) = <<dargs.pos[1], dargs.pos[2], 0, 1>>
        /\ Mat4Apply(model, <<1, 1, 0, 1>>) =
              <<dargs.pos[1] + dargs.size[1], dargs.pos[2] + dargs.size[2], 0, 1>>

(* C11: for every position P, size S and non-zero rotation by quarter     *)
(* turns, the model matrix of draw_sprite maps the unit quad's centre     *)
(* (1/2, 1/2) to P + S/2.  The centre is written in homogeneous           *)
(* coordinates as (1, 1, 0, 2), and so is its image.                      *)
C11_CentreInvariant ==
    (last.op = "draw_sprite" /\ dargs.rotate # 0) =>
        Mat4Apply(model, <<1, 1, 0, 2>>) =
            <<2 * dargs.pos[1] + dargs.size[1], 2 * dargs.pos[2] + dargs.size[2], 0, 2>>

-----------------------------------------------------------------------------
(* render.rs: the life of a SpriteRenderer *)

MaxVaoId == 2
MaxBufId == 2
VaoIds == 1..MaxVaoId
BufIds == 1..MaxBufId

(* SpriteRenderer::init_render_data(gl): the calls, with the names that    *)
(* GenVertexArrays and GenBuffers wrote.  BufferData is given              *)
(* vertices.len() = 24 as the size in bytes.                               *)
init_render_data(vao, vbo) ==
    <<Call("GenVertexArrays", "", vao, <<>>),
      Call("GenBuffers", "", vbo, <<>>),
      Call("BindBuffer", "GL_ARRAY_BUFFER", vbo, <<>>),
      Call("BufferData", "GL_ARRAY_BUFFER", vbo, <<24>>),
      Call("BindVertexArray", "", vao, <<>>),
      Call("EnableVertexAttribArray", "", 0, <<>>),
      Call("VertexAttribPointer", "GL_FLOAT", 0, <<4, 16>>),
      Call("BindBuffer", "GL_ARRAY_BUFFER", 0, <<>>),
      Call("BindVertexArray", "", 0, <<>>)>>

(* SpriteRenderer::new(gl, shader).  The driver hands out any vertex array *)
(* and buffer names that are not live.                                     *)
renderer_new(shader) ==
    /\ running
    /\ \E vao \in VaoIds \ glVaos, vbo \in BufIds \ glBufs :
        /\ renderer' = [shader |-> shader, quad_vao |-> vao, quad_vbo |-> vbo]
        /\ glVaos' = glVaos \cup {vao}
        /\ glBufs' = glBufs \cup {vbo}
        /\ last' = Op("renderer_new", "", shader, TRUE, None, init_render_data(vao, vbo))

(* Faulty variant of uninit: the handles are deleted but not zeroed *)
uninit_keep_handles ==
    /\ running
    /\ glVaos' = glVaos \ {renderer.quad_vao}
    /\ glBufs' = glBufs \ {renderer.quad_vbo}
    /\ renderer' = renderer
    /\ last' = Op("uninit", "", <<>>, TRUE, None,
                  <<Call("DeleteVertexArrays", "", 1, <<renderer.quad_vao>>),
                    Call("DeleteBuffers", "", 1, <<renderer.quad_vbo>>)>>)

(* SpriteRenderer::uninit(&mut self, gl).  Deleting the name 0 deletes *)
(* nothing.                                                            *)
uninit ==
    /\ running
    /\ glVaos' = glVaos \ {renderer.quad_vao}
    /\ glBufs' = glBufs \ {renderer.quad_vbo}
    /\ renderer' = [renderer EXCEPT !.quad_vao = 0, !.quad_vbo = 0]
    /\ last' = Op("uninit", "", <<>>, TRUE, None,
                  <<Call("DeleteVertexArrays", "", 1, <<renderer.quad_vao>>),
                    Call("DeleteBuffers", "", 1, <<renderer.quad_vbo>>)>>)

(* The renderer is constructed once, then drawn with and uninitialised in *)
(* any order and any number of times.  Other owners of vertex arrays and   *)
(* buffers (a second SpriteRenderer) come and go meanwhile.                *)
SpriteRendererNew(shader) ==
    /\ renderer = NoRenderer
    /\ renderer_new(shader)
    /\ UNCHANGED <<cacheVars, running, cargs, dargs, model, poisoned, lockErrs,
                   frameVars, threadVars>>

RendererDraw(args) ==
    /\ renderer # NoRenderer
    /\ draw_sprite(renderer, args)
    /\ UNCHANGED <<cacheVars, running, cargs, dargs, poisoned, lockErrs,
                   rendVars, frameVars, threadVars>>

Uninit ==
    /\ renderer # NoRenderer
    /\ uninit
    /\ UNCHANGED <<cacheVars, running, cargs, dargs, model, poisoned, lockErrs,
                   frameVars, threadVars>>

OtherRendererNew ==
    /\ running
    /\ \E vao \in VaoIds \ glVaos, vbo \in BufIds \ glBufs :
        /\ glVaos' = glVaos \cup {vao}
        /\ glBufs' = glBufs \cup {vbo}
        /\ last' = Op("other_renderer_new", "", <<>>, TRUE, None, init_render_data(vao, vbo))
    /\ UNCHANGED <<cacheVars, running, cargs, dargs, model, poisoned, lockErrs,
                   renderer, frameVars, threadVars>>

OtherUninit ==
    /\ running
    /\ \E vao \in glVaos \ {renderer.quad_vao}, vbo \in glBufs \ {renderer.quad_vbo} :
        /\ glVaos' = glVaos \ {vao}
        /\ glBufs' = glBufs \ {vbo}
        /\ last' = Op("other_uninit", "", <<>>, TRUE, None,
                      <<Call("DeleteVertexArrays", "", 1, <<vao>>),
                        Call("DeleteBuffers", "", 1, <<vbo>>)>>)
    /\ UNCHANGED <<cacheVars, running, cargs, dargs, model, poisoned, lockErrs,
                   renderer, frameVars, threadVars>>

(* Game::render's draw (game.rs:139-145), with a quarter turn for the 45   *)
(* degrees, and the same sprite unrotated                                   *)
SampleDraws ==
    {[texture |-> [id |-> 1], pos |-> <<2, 2>>, size |-> <<2, 4>>, rotate |-> r] :
        r \in {0, 90}}

InitRenderer ==
    /\ initialize
    /\ glPrograms = {}
    /\ glTextures = {}
    /\ running = TRUE
    /\ last = NoOp
    /\ cargs = NoArgs
    /\ dargs = NoDraw
    /\ model = NoModel
    /\ IdlePoison /\ IdleRenderer /\ IdleFrame /\ IdleThreads

NextRenderer ==
    \/ \E i \in ProgramIds : SpriteRendererNew([id |-> i])
    \/ \E args \in SampleDraws : RendererDraw(args)
    \/ Uninit
    \/ OtherRendererNew
    \/ OtherUninit

SpecRenderer == InitRenderer /\ [][NextRenderer]_vars

CallsNamed(fns) == {k \in DOMAIN last.calls : last.calls[k].fn \in fns}

(* C17: a SpriteRenderer's vertex array and buffer are created exactly     *)
(* once, at construction; over any sequence of draw_sprite and uninit      *)
(* calls each of the two handles is deleted exactly once, by uninit: its   *)
(* handle stays live until the first uninit, which deletes it, and a       *)
(* repeated uninit deletes no live object; after uninit both stored        *)
(* handles are 0.                                                          *)
C17_RendererLifetime ==
    /\ last.op = "renderer_new" =>
          /\ Cardinality(CallsNamed({"GenVertexArrays"})) = 1
          /\ Cardinality(CallsNamed({"GenBuffers"})) = 1
          /\ \A k \in CallsNamed({"GenVertexArrays"}) : last.calls[k].id = renderer.quad_vao
          /\ \A k \in CallsNamed({"GenBuffers"}) : last.calls[k].id = renderer.quad_vbo
          /\ renderer.quad_vao # 0 /\ renderer.quad_vbo # 0
          /\ renderer.quad_vao \notin last.pre.glVaos
          /\ renderer.quad_vbo \notin last.pre.glBufs
    /\ last.op \in {"draw_sprite", "uninit"} =>
          CallsNamed({"GenVertexArrays", "GenBuffers"}) = {}
    /\ last.op = "draw_sprite" =>
          /\ CallsNamed({"DeleteVertexArrays", "DeleteBuffers"}) = {}
          /\ renderer = last.pre.renderer
          /\ glVaos = last.pre.glVaos /\ glBufs = last.pre.glBufs
    /\ renderer.quad_vao # 0 => renderer.quad_vao \in glVaos
    /\ renderer.quad_vbo # 0 => renderer.quad_vbo \in glBufs
    /\ last.op = "uninit" =>
          LET vao == last.pre.renderer.quad_vao
              vbo == last.pre.renderer.quad_vbo
          IN  /\ renderer.quad_vao = 0 /\ renderer.quad_vbo = 0
              /\ renderer.shader = last.pre.renderer.shader
              /\ last.calls = <<[fn |-> "DeleteVertexArrays", kind |-> "", id |-> 1, ids |-> <<vao>>],
                                [fn |-> "DeleteBuffers", kind |-> "", id |-> 1, ids |-> <<vbo>>]>>
              /\ vao # 0 => (vao \in last.pre.glVaos /\ glVaos = last.pre.glVaos \ {vao})
              /\ vbo # 0 => (vbo \in last.pre.glBufs /\ glBufs = last.pre.glBufs \ {vbo})
              /\ vao = 0 => glVaos = last.pre.glVaos
              /\ vbo = 0 => glBufs = last.pre.glBufs

(* a repeated uninit while another owner's vertex array and buffer are live *)
C17_Witness ==
    /\ last.op = "uninit"
    /\ last.pre.renderer.quad_vao = 0
    /\ last.pre.renderer.quad_vbo = 0
    /\ last.pre.renderer.shader.id # 0
    /\ glVaos # {} /\ glBufs # {}

-----------------------------------------------------------------------------
(* program.rs, game.rs: Program::execute -- Game::init, the frame loop,    *)
(* Game::before_close.  pc names the call the program makes next.          *)

MaxFrames == 2
MaxEvents == 2

(* Event::Quit, one of the events handle_input prints, one it ignores *)
EventKinds == {"Quit", "Keyboard", "Other"}

(* The sprite shader files, as from_files read them: free of zero bytes, *)
(* or not.  Game::init passes no geometry source.                        *)
GameShaderSources == {a \in SampleArgs : ~has_geo(a)}
FrameDrivers == {d \in SampleDrivers : d.geo = "garbage"}

(* Names are interchangeable and nothing is live when Program::execute   *)
(* starts: the driver is taken to hand out the least free name.          *)
Least(S) == CHOOSE x \in S : \A y \in S : x <= y
LeastNew(live, liveAfter) == \A x \in liveAfter \ live : \A y \in 1..x : y \in live \/ y = x

(* Game::render's DrawSpriteArgs (game.rs:139-145): position (200,200),   *)
(* size (300,400), shrunk to (2,2) and (2,4); a quarter turn stands for   *)
(* the 45 degrees.                                                        *)
GameDraw(face) == [texture |-> face, pos |-> <<2, 2>>, size |-> <<2, 4>>, rotate |-> 90]

StepDone(step) == [frame EXCEPT !.steps = Append(@, step)]

(* ShaderCompileArgs::from_files(..).expect(..): a shader file cannot be read *)
GameInitNoFiles ==
    /\ pc = "init_shader" /\ running
    /\ pc' = "dead"
    /\ last' = Op("from_files", "", <<>>, FALSE, None, <<>>)
    /\ UNCHANGED <<cacheVars, running, cargs, dargs, model, poisoned, lockErrs, rendVars,
                   input_status, events, frame, threadVars>>

(* Game::init, game.rs:55-59: load_shader "sprite", panic on None *)
GameInitShader ==
    /\ pc = "init_shader"
    /\ \E args \in GameShaderSources : load_shader("sprite", args, FrameDrivers)
    /\ LeastNew(glPrograms, glPrograms')
    /\ pc' = IF last'.returned /\ last'.ret # None THEN "init_uniforms" ELSE "dead"
    /\ frame' = [frame EXCEPT !.shader = IF last'.ret # None THEN last'.ret[1] ELSE @]
    /\ UNCHANGED <<textures, glTextures, cargs, dargs, model, poisoned, rendVars,
                   input_status, events, threadVars>>

(* Game::init, game.rs:71-74: set_main, set_integer "image", projection *)
GameInitUniforms ==
    /\ pc = "init_uniforms" /\ running
    /\ \E locImage \in UniformLocations, locProj \in UniformLocations :
        last' = Op("init_uniforms", "", frame.shader, TRUE, None,
                   set_main(frame.shader)
                   \o set_integer(frame.shader, UniformImage, locImage, TRUE).calls
                   \o set_matrix4f_from(frame.shader, UniformProjection, locProj, FALSE).calls)
    /\ pc' = "init_renderer"
    /\ UNCHANGED <<cacheVars, running, cargs, dargs, model, poisoned, lockErrs, rendVars,
                   input_status, events, frame, threadVars>>

(* Faulty variant of GameInitRenderer: the renderer is given a Shader::new() *)
GameInitRendererUnsetShader ==
    /\ pc = "init_renderer"
    /\ renderer_new(ShaderNew)
    /\ LeastNew(glVaos, glVaos') /\ LeastNew(glBufs, glBufs')
    /\ pc' = "init_texture"
    /\ UNCHANGED <<cacheVars, running, cargs, dargs, model, poisoned, lockErrs,
                   input_status, events, frame, threadVars>>

(* Game::init, game.rs:75: SpriteRenderer::new(gl, &sprite_shader) *)
GameInitRenderer ==
    /\ pc = "init_renderer"
    /\ renderer_new(frame.shader)
    /\ LeastNew(glVaos, glVaos') /\ LeastNew(glBufs, glBufs')
    /\ pc' = "init_texture"
    /\ UNCHANGED <<cacheVars, running, cargs, dargs, model, poisoned, lockErrs,
                   input_status, events, frame, threadVars>>

(* keys: [bool; 1024] *)
KeyCount == 1024

(* The Game that Game::init returns, game.rs:88-93: state Active and every *)
(* key flag false.  keys is the set of the indices whose flag is true.     *)
GameNew == [state |-> "Active", keys |-> {k \in 0..(KeyCount - 1) : FALSE}]

(* Faulty variant of GameInitTexture: the result of the load is not looked at *)
GameInitTextureUnchecked ==
    /\ pc = "init_texture"
    /\ \E file \in Paths : load_texture("face", file, TRUE)
    /\ LeastNew(glTextures, glTextures')
    /\ pc' = "test"
    /\ frame' = [frame EXCEPT !.game = GameNew]
    /\ UNCHANGED <<shaders, glPrograms, running, cargs, dargs, model, poisoned, rendVars,
                   input_status, events, threadVars>>

(* Game::init, game.rs:77-85: load_texture "face" with alpha, panic on None. *)
(* What the file at the fixed path turns out to be is the environment's.     *)
GameInitTexture ==
    /\ pc = "init_texture"
    /\ \E file \in Paths : load_texture("face", file, TRUE)
    /\ LeastNew(glTextures, glTextures')
    /\ pc' = IF last'.ret # None THEN "test" ELSE "dead"
    /\ frame' = IF last'.ret # None THEN [frame EXCEPT !.game = GameNew] ELSE frame
    /\ UNCHANGED <<shaders, glPrograms, running, cargs, dargs, model, poisoned, rendVars,
                   input_status, events, threadVars>>

(* Faulty variant of LoopTest: the loop runs while the status is Quit *)
LoopTestInverted ==
    /\ pc = "test" /\ running
    /\ pc' = IF input_status = "Quit" THEN "poll" ELSE "close"
    /\ UNCHANGED <<cacheVars, running, last, cargs, dargs, model, poisoned, lockErrs,
                   rendVars, input_status, events, frame, threadVars>>

(* program.rs:75: while input_status == InputStatus::Continue *)
LoopTest ==
    /\ pc = "test" /\ running
    /\ pc' = IF input_status = "Continue" THEN "poll" ELSE "close"
    /\ UNCHANGED <<cacheVars, running, last, cargs, dargs, model, poisoned, lockErrs,
                   rendVars, input_status, events, frame, threadVars>>

(* Game::handle_input: poll until the queue is empty or Quit is polled. *)
(* The index of the first Quit in the queue, 0 when there is none.      *)
FirstQuit(queue) ==
    IF \E i \in DOMAIN queue : queue[i] = "Quit"
    THEN Least({i \in DOMAIN queue : queue[i] = "Quit"})
    ELSE 0

(* Faulty variant of handle_input: a polled Keyboard event sets a key flag *)
handle_input_tracks_keys(self, queue) ==
    LET polled == IF FirstQuit(queue) # 0 THEN SubSeq(queue, 1, FirstQuit(queue)) ELSE queue
        pressed == IF \E i \in DOMAIN polled : polled[i] = "Keyboard" THEN {0} ELSE {}
        after == [self EXCEPT !.keys = @ \cup pressed]
    IN  IF FirstQuit(queue) # 0
        THEN [status |-> "Quit", rest |-> SubSeq(queue, FirstQuit(queue) + 1, Len(queue)),
              self |-> after]
        ELSE [status |-> "Continue", rest |-> <<>>, self |-> after]

(* Faulty variant of handle_input: the queue is emptied before Quit is *)
(* answered                                                            *)
handle_input_drains(self, queue) ==
    [status |-> IF FirstQuit(queue) # 0 THEN "Quit" ELSE "Continue",
     rest |-> <<>>, self |-> self]

(* handle_input(&self, ..): every arm of the match but Event::Quit does     *)
(* nothing or prints, and no arm assigns a field of the Game (game.rs       *)
(* 114-128): the Game is handed back as it was received.                    *)
handle_input(self, queue) ==
    IF FirstQuit(queue) # 0
    THEN [status |-> "Quit", rest |-> SubSeq(queue, FirstQuit(queue) + 1, Len(queue)),
          self |-> self]
    ELSE [status |-> "Continue", rest |-> <<>>, self |-> self]

(* Faulty variant of HandleInput: a Quit leaves the loop at once *)
HandleInputQuitExits ==
    /\ pc = "poll" /\ running
    /\ LET r == handle_input(frame.game, events)
       IN  /\ input_status' = r.status
           /\ events' = r.rest
           /\ frame' = IF r.status = "Quit"
                       THEN [frame EXCEPT !.polled = r.status, !.game = r.self]
                       ELSE [StepDone("poll") EXCEPT !.polled = r.status, !.game = r.self]
           /\ last' = Op("handle_input", "", events, TRUE, Some([status |-> r.status]), <<>>)
           /\ pc' = IF r.status = "Quit" THEN "close" ELSE "update"
    /\ UNCHANGED <<cacheVars, running, cargs, dargs, model, poisoned, lockErrs,
                   rendVars, threadVars>>

(* program.rs:76-79 *)
HandleInput ==
    /\ pc = "poll" /\ running
    /\ LET r == handle_input(frame.game, events)
       IN  /\ input_status' = r.status
           /\ events' = r.rest
           /\ frame' = [StepDone("poll") EXCEPT !.polled = r.status, !.game = r.self]
           /\ last' = Op("handle_input", "", events, TRUE, Some([status |-> r.status]), <<>>)
    /\ pc' = "update"
    /\ UNCHANGED <<cacheVars, running, cargs, dargs, model, poisoned, lockErrs,
                   rendVars, threadVars>>

(* Faulty variant of Update: the frame goes on to render without clearing *)
UpdateSkipsClear ==
    /\ pc = "update" /\ running
    /\ frame' = StepDone("update")
    /\ last' = Op("update", "", <<>>, TRUE, None, <<>>)
    /\ pc' = "render"
    /\ UNCHANGED <<cacheVars, running, cargs, dargs, model, poisoned, lockErrs,
                   rendVars, input_status, events, threadVars>>

(* program.rs:80, Game::update: empty body *)
Update ==
    /\ pc = "update" /\ running
    /\ frame' = StepDone("update")
    /\ last' = Op("update", "", <<>>, TRUE, None, <<>>)
    /\ pc' = "clear"
    /\ UNCHANGED <<cacheVars, running, cargs, dargs, model, poisoned, lockErrs,
                   rendVars, input_status, events, threadVars>>

(* program.rs:82-83 *)
Clear ==
    /\ pc = "clear" /\ running
    /\ frame' = StepDone("clear")
    /\ last' = Op("clear", "", <<>>, TRUE, None,
                  <<Call("ClearColor", "", 0, <<0, 0, 0, 0>>),
                    Call("Clear", "GL_COLOR_BUFFER_BIT", 0, <<>>)>>)
    /\ pc' = "render"
    /\ UNCHANGED <<cacheVars, running, cargs, dargs, model, poisoned, lockErrs,
                   rendVars, input_status, events, threadVars>>

(* Faulty variant of RenderGet: a failed lookup leaves the loop and goes *)
(* on to before_close                                                    *)
RenderGetThenClose ==
    /\ pc = "render"
    /\ get_texture("face")
    /\ pc' = IF last'.ret # None THEN "draw" ELSE "close"
    /\ frame' = [frame EXCEPT !.face = IF last'.ret # None THEN last'.ret[1] ELSE @,
                              !.steps = IF last'.ret # None THEN @ ELSE <<>>,
                              !.polled = IF last'.ret # None THEN @ ELSE "Quit"]
    /\ UNCHANGED <<cacheVars, running, cargs, dargs, model, poisoned, rendVars,
                   input_status, events, threadVars>>

(* Game::render, game.rs:135-138: get_texture "face", panic on None *)
RenderGet ==
    /\ pc = "render"
    /\ get_texture("face")
    /\ pc' = IF last'.ret # None THEN "draw" ELSE "dead"
    /\ frame' = [frame EXCEPT !.face = IF last'.ret # None THEN last'.ret[1] ELSE @]
    /\ UNCHANGED <<cacheVars, running, cargs, dargs, model, poisoned, rendVars,
                   input_status, events, threadVars>>

(* Game::render, game.rs:139-147: draw_sprite with the texture just fetched *)
RenderDraw ==
    /\ pc = "draw"
    /\ draw_sprite(renderer, GameDraw(frame.face))
    /\ frame' = StepDone("render")
    /\ pc' = "swap"
    /\ UNCHANGED <<cacheVars, running, cargs, dargs, poisoned, lockErrs, rendVars,
                   input_status, events, threadVars>>

(* program.rs:85: swap_backbuffer ends the iteration *)
Swap ==
    /\ pc = "swap" /\ running
    /\ frame' = [frame EXCEPT !.steps = <<>>,
                              !.done = Append(frame.steps, "swap"),
                              !.iterations = IF @ < MaxFrames THEN @ + 1 ELSE @]
    /\ last' = Op("swap_backbuffer", "", <<>>, TRUE, None, <<>>)
    /\ pc' = "test"
    /\ UNCHANGED <<cacheVars, running, cargs, dargs, model, poisoned, lockErrs,
                   rendVars, input_status, events, threadVars>>

(* Faulty variant of BeforeCloseDispose: the cache is left as it is *)
BeforeCloseKeepsCache ==
    /\ pc = "close" /\ running
    /\ last' = Op("dispose_all", "", <<>>, TRUE, None, <<>>)
    /\ pc' = "uninit"
    /\ UNCHANGED <<cacheVars, running, cargs, dargs, model, poisoned, lockErrs, rendVars,
                   input_status, events, frame, threadVars>>

(* Game::before_close, game.rs:151: ResourceManager::instance().dispose_all *)
BeforeCloseDispose ==
    /\ pc = "close"
    /\ \E sorder \in Perms(Drained(shaders, "shaders")),
          torder \in Perms(Drained(textures, "textures")) : dispose_all(sorder, torder)
    /\ pc' = "uninit"
    /\ UNCHANGED <<running, cargs, dargs, model, poisoned, rendVars,
                   input_status, events, frame, threadVars>>

(* Game::before_close, game.rs:152: self.renderer.uninit; program.rs:88-89 *)
BeforeCloseUninit ==
    /\ pc = "uninit"
    /\ uninit
    /\ frame' = [frame EXCEPT !.closes = @ + 1]
    /\ pc' = "done"
    /\ UNCHANGED <<cacheVars, running, cargs, dargs, model, poisoned, lockErrs,
                   input_status, events, threadVars>>

(* The window system queues an event *)
Arrive(e) ==
    /\ pc \notin {"off", "done", "dead"} /\ running
    /\ Len(events) < MaxEvents
    /\ events' = Append(events, e)
    /\ UNCHANGED <<cacheVars, running, last, cargs, dargs, model, poisoned, lockErrs,
                   rendVars, pc, input_status, frame, threadVars>>

InitFrame ==
    /\ initialize
    /\ glPrograms = {}
    /\ glTextures = {}
    /\ running = TRUE
    /\ last = NoOp
    /\ cargs = NoArgs
    /\ dargs = NoDraw
    /\ model = NoModel
    /\ IdlePoison /\ IdleRenderer /\ IdleThreads
    /\ pc = "init_shader" /\ input_status = "Continue" /\ events = <<>> /\ frame = NoFrame

ProgramStep ==
    \/ GameInitNoFiles
    \/ GameInitShader
    \/ GameInitUniforms
    \/ GameInitRenderer
    \/ GameInitTexture
    \/ LoopTest
    \/ HandleInput
    \/ Update
    \/ Clear
    \/ RenderGet
    \/ RenderDraw
    \/ Swap
    \/ BeforeCloseDispose
    \/ BeforeCloseUninit

NextFrame == ProgramStep \/ \E e \in EventKinds : Arrive(e)

SpecFrame == InitFrame /\ [][NextFrame]_vars

(* The thread of Program::execute keeps running: nothing suspends it *)
SpecFrameLive == SpecFrame /\ WF_vars(ProgramStep)

(* C12: every iteration of the frame loop performs, in this order and each *)
(* exactly once, poll, update, clear, render, present: the steps of the    *)
(* iteration under way are a prefix of that list, a finished iteration     *)
(* made all five, and an iteration starts only while the status of the     *)
(* previous poll cycle is Continue.                                        *)
C12_FrameOrder ==
    /\ frame.steps = SubSeq(<<"poll", "update", "clear", "render", "swap">>, 1, Len(frame.steps))
    /\ Len(frame.steps) < 5
    /\ (frame.iterations > 0 => frame.done = <<"poll", "update", "clear", "render", "swap">>)
    /\ (pc = "poll" => frame.steps = <<>> /\ input_status = "Continue" /\ frame.polled # "Quit")
    /\ (frame.steps # <<>> => pc \in {"update", "clear", "render", "draw", "swap", "dead"})

C12_Witness ==
    /\ frame.iterations = 2
    /\ pc = "swap"
    /\ frame.steps = <<"poll", "update", "clear", "render">>
    /\ frame.polled = "Continue"

(* C13: the loop exits only after a poll cycle returned Quit; once a poll  *)
(* cycle has returned Quit the loop eventually exits and before_close runs *)
(* exactly once, after the last frame.                                     *)
C13_QuitEndsLoop ==
    /\ [](pc \in {"close", "uninit", "done"} =>
            /\ frame.polled = "Quit"
            /\ frame.steps = <<>>
            /\ frame.done = <<"poll", "update", "clear", "render", "swap">>)
    /\ [](frame.closes <= 1 /\ (pc = "done" <=> frame.closes = 1))
    /\ ((frame.polled = "Quit") ~> (pc = "done" /\ frame.closes = 1))

C13_Witness ==
    /\ pc = "done"
    /\ frame.closes = 1
    /\ frame.iterations = 2
    /\ last.op = "uninit"

(* C20: before_close releases the cache and then the renderer's buffers:   *)
(* when dispose_all has returned both tables are empty and every shader    *)
(* and texture that was cached is deleted while the renderer's objects are *)
(* still live; when before_close has returned the tables are empty, the    *)
(* VAO and VBO are deleted and the renderer's handles are 0.               *)
C20_BeforeClose ==
    /\ (pc = "uninit" =>
            /\ last.op = "dispose_all"
            /\ DOMAIN shaders = {} /\ DOMAIN textures = {}
            /\ \A n \in DOMAIN last.pre.shaders : last.pre.shaders[n].id \notin glPrograms
            /\ \A n \in DOMAIN last.pre.textures : last.pre.textures[n].id \notin glTextures
            /\ renderer.quad_vao \in glVaos /\ renderer.quad_vbo \in glBufs)
    /\ (pc = "done" =>
            /\ DOMAIN shaders = {} /\ DOMAIN textures = {}
            /\ frame.shader.id \notin glPrograms
            /\ last.pre.renderer.quad_vao \notin glVaos
            /\ last.pre.renderer.quad_vbo \notin glBufs
            /\ renderer.quad_vao = 0 /\ renderer.quad_vbo = 0)

C20_Witness ==
    /\ pc = "done"
    /\ last.pre.renderer.quad_vao # 0
    /\ last.pre.renderer.quad_vbo # 0
    /\ frame.shader.id # 0
    /\ DOMAIN textures = {}

-----------------------------------------------------------------------------
(* Program::execute while other threads use ResourceManager::instance():  *)
(* the cache is process-wide, so a thread may drain it, or die holding a   *)
(* table's lock, between any two calls of the frame loop.                  *)

ProcessLives == pc \notin {"off", "done", "dead"}

OtherDisposeAll ==
    /\ ProcessLives
    /\ \E sorder \in Perms(Drained(shaders, "shaders")),
          torder \in Perms(Drained(textures, "textures")) : dispose_all(sorder, torder)
    /\ UNCHANGED <<running, cargs, dargs, model, poisoned, rendVars, frameVars, threadVars>>

OtherLoadTexturePanics ==
    /\ ProcessLives
    /\ \E file \in Paths : load_texture_panics("face", file, TRUE)
    /\ LeastNew(glTextures, glTextures')
    /\ UNCHANGED <<shaders, glPrograms, running, cargs, dargs, model,
                   rendVars, frameVars, threadVars>>

NextFrameShared ==
    \/ ProgramStep
    \/ \E e \in EventKinds : Arrive(e)
    \/ OtherDisposeAll
    \/ OtherLoadTexturePanics

SpecFrameShared == InitFrame /\ [][NextFrameShared]_vars

(* C16: when render panics during a frame (its lookup of "face" fails)    *)
(* the process terminates without teardown: the failed lookup is the      *)
(* program's last step, before_close has not run and never runs, the      *)
(* renderer's VAO and VBO are still live, and a cache that still holds    *)
(* entries keeps them and their GPU objects.                              *)
C16_PanicSkipsTeardown ==
    /\ [][(pc = "render" /\ pc' # pc /\ ("textures" \in poisoned \/ "face" \notin DOMAIN textures))
            => pc' = "dead"]_vars
    /\ [][pc # "dead"]_vars
    /\ []((pc = "dead" /\ frame.steps # <<>>) =>
            /\ frame.steps = <<"poll", "update", "clear">>
            /\ frame.closes = 0
            /\ renderer.quad_vao # 0 /\ renderer.quad_vao \in glVaos
            /\ renderer.quad_vbo # 0 /\ renderer.quad_vbo \in glBufs
            /\ shaders = last.pre.shaders /\ textures = last.pre.textures
            /\ glPrograms = last.pre.glPrograms /\ glTextures = last.pre.glTextures
            /\ \A n \in DOMAIN shaders : shaders[n].id \in glPrograms
            /\ \A n \in DOMAIN textures : textures[n].id \in glTextures)

C16_Witness ==
    /\ pc = "dead"
    /\ frame.steps = <<"poll", "update", "clear">>
    /\ "textures" \in poisoned
    /\ "face" \in DOMAIN textures
    /\ "sprite" \in DOMAIN shaders
    /\ frame.iterations > 0

-----------------------------------------------------------------------------
(* The cache used by several threads, any of which may die while it holds *)
(* a table's lock: the operations on tables whose Mutex is poisoned.       *)

NextPoison ==
    \/ \E name \in Names, args \in GameShaderSources : LoadShader(name, args, FrameDrivers)
    \/ \E name \in Names : GetShader(name)
    \/ \E name \in Names, file \in Paths : LoadTexture(name, file, TRUE)
    \/ \E name \in Names : GetTexture(name)
    \/ \E sorder \in Perms(Drained(shaders, "shaders")),
          torder \in Perms(Drained(textures, "textures")) : DisposeAll(sorder, torder)
    \/ \E name \in Names, args \in GameShaderSources : LoadShaderPanics(name, args, FrameDrivers)
    \/ \E name \in Names, file \in Paths : LoadTexturePanics(name, file, TRUE)

SpecPoison == InitCache /\ [][NextPoison]_vars

(* The table an operation works on *)
TableNow(which) == IF which = "shaders" THEN shaders ELSE textures
TableBefore(which) == IF which = "shaders" THEN last.pre.shaders ELSE last.pre.textures
LiveNow(which) == IF which = "shaders" THEN glPrograms ELSE glTextures

(* C14: with a table's lock poisoned, load and get on that table report  *)
(* the failure, return None, leave the table as it was and do not end    *)
(* the process; dispose_all logs and skips the poisoned table and drains *)
(* and GPU-deletes the contents of the other.                            *)
C14_PoisonedLock ==
    /\ \A which \in {"shaders", "textures"} :
        (/\ last.op \in (IF which = "shaders" THEN {"load_shader", "get_shader"}
                                              ELSE {"load_texture", "get_texture"})
         /\ which \in last.pre.poisoned)
        => /\ last.returned /\ running
           /\ last.ret = <<>>
           /\ TableNow(which) = TableBefore(which)
           /\ lockErrs # <<>>
    /\ (last.op = "dispose_all" /\ last.pre.poisoned # {}) =>
        /\ last.returned /\ running
        /\ Len(lockErrs) = Cardinality(last.pre.poisoned)
        /\ \A which \in {"shaders", "textures"} :
            IF which \in last.pre.poisoned
            THEN TableNow(which) = TableBefore(which)
            ELSE /\ DOMAIN TableNow(which) = {}
                 /\ \A n \in DOMAIN TableBefore(which) :
                        TableBefore(which)[n].id \notin LiveNow(which)

-----------------------------------------------------------------------------
(* resman.rs: ResourceManager::instance -- static SINGLE: OnceCell, read   *)
(* with get_or_init(ResourceManager::initialize) by several threads.       *)
(* once_cell::sync::OnceCell runs one initialiser; callers arriving while  *)
(* it runs block until the value is set.                                   *)

MaxThreads == 2
ThreadIds == 1..MaxThreads

(* a thread outside any call; ref: the value of SINGLE it was handed, 0 for none *)
ThreadIdle == [pc |-> "idle", ref |-> 0]

InitSingleton ==
    /\ initialize
    /\ glPrograms = {}
    /\ glTextures = {}
    /\ running = TRUE
    /\ last = NoOp
    /\ cargs = NoArgs
    /\ dargs = NoDraw
    /\ model = NoModel
    /\ IdlePoison /\ IdleRenderer /\ IdleFrame
    /\ threads = [t \in ThreadIds |-> ThreadIdle]
    /\ lockOwner = NoOwner
    /\ cell = NoCell

othersUnchanged ==
    UNCHANGED <<glPrograms, glTextures, running, cargs, dargs, model, poisoned, lockErrs,
                rendVars, frameVars, lockOwner>>

(* ResourceManager::instance() is called *)
InstanceCall(t) ==
    /\ threads[t].pc = "idle"
    /\ threads' = [threads EXCEPT ![t].pc = "get_or_init"]
    /\ UNCHANGED <<shaders, textures, last, cell>>
    /\ othersUnchanged

(* Faulty variant of GetOrInit: the cell is tested and filled without *)
(* synchronisation                                                    *)
GetOrInitRacy(t) ==
    /\ threads[t].pc = "get_or_init"
    /\ IF cell.state = "done"
       THEN threads' = [threads EXCEPT ![t] = [pc |-> "idle", ref |-> cell.inits]]
       ELSE threads' = [threads EXCEPT ![t].pc = "initialize"]
    /\ UNCHANGED <<shaders, textures, last, cell>>
    /\ othersUnchanged

(* OnceCell::get_or_init: the value if set; else this thread becomes the *)
(* initialiser, unless one is running, for which it waits                *)
GetOrInit(t) ==
    /\ threads[t].pc = "get_or_init"
    /\ cell.state # "running"
    /\ IF cell.state = "done"
       THEN /\ threads' = [threads EXCEPT ![t] = [pc |-> "idle", ref |-> cell.inits]]
            /\ UNCHANGED cell
       ELSE /\ threads' = [threads EXCEPT ![t].pc = "initialize"]
            /\ cell' = [cell EXCEPT !.state = "running"]
    /\ UNCHANGED <<shaders, textures, last>>
    /\ othersUnchanged

(* the initialiser runs ResourceManager::initialize and the cell is set *)
Initialize(t) ==
    /\ threads[t].pc = "initialize"
    /\ shaders' = Empty
    /\ textures' = Empty
    /\ cell' = [state |-> "done", inits |-> cell.inits + 1]
    /\ threads' = [threads EXCEPT ![t] = [pc |-> "idle", ref |-> cell.inits + 1]]
    /\ last' = Op("initialize", "", <<>>, TRUE, None, <<>>)
    /\ othersUnchanged

(* a thread uses the cache it was handed *)
UseInstance(t) ==
    /\ threads[t].pc = "idle"
    /\ threads[t].ref # 0
    /\ \/ \E name \in Names, file \in Paths : LoadTexture(name, file, TRUE)
       \/ \E name \in Names : GetTexture(name)

NextSingleton ==
    \E t \in ThreadIds :
        \/ InstanceCall(t)
        \/ GetOrInit(t)
        \/ Initialize(t)
        \/ UseInstance(t)

SpecSingleton == InitSingleton /\ [][NextSingleton]_vars

(* C19: instance() hands every caller on every thread the same cache,    *)
(* initialised exactly once, on first access, with both tables empty,    *)
(* also when the first accesses are concurrent: initialize runs at most  *)
(* once and not before a call, every reference handed out is to the      *)
(* value of that one run, and the run leaves both tables empty.          *)
C19_Singleton ==
    /\ cell.inits <= 1
    /\ (cell.inits = 0 => \A t \in DOMAIN threads : threads[t].ref = 0)
    /\ \A t \in DOMAIN threads : threads[t].ref # 0 => threads[t].ref = 1 /\ cell.inits = 1
    /\ \A t, u \in DOMAIN threads :
            (threads[t].ref # 0 /\ threads[u].ref # 0) => threads[t].ref = threads[u].ref
    /\ (last.op = "initialize" =>
            /\ DOMAIN shaders = {} /\ DOMAIN textures = {}
            /\ DOMAIN last.pre.shaders = {} /\ DOMAIN last.pre.textures = {})

C19_Witness ==
    /\ cell.inits = 1
    /\ \A t \in DOMAIN threads : threads[t].ref = 1 /\ threads[t].pc = "idle"
    /\ Cardinality(DOMAIN threads) > 1
    /\ DOMAIN textures # {}

-----------------------------------------------------------------------------
(* resman.rs: the cache called from several threads.  A call is a sequence *)
(* of steps of its thread; lockOwner[table] is the thread that holds the   *)
(* guard of that table's Mutex, None when it is free.                      *)

ThreadReady == [pc |-> "idle", op |-> "", name |-> "", loaded |-> None]

TableOf(op) == IF op \in {"load_shader", "get_shader"} THEN "shaders" ELSE "textures"

Acquire(t, table) == [lockOwner EXCEPT ![table] = Some(t)]
Release(table) == [lockOwner EXCEPT ![table] = None]

(* the names Game::init caches under (game.rs:56, 79) *)
CacheName(op) == IF TableOf(op) = "shaders" THEN "sprite" ELSE "face"

(* the inputs the threads load with; the steps of a call leave `last` alone *)
ThreadArgs == from_sources(<<65>>, <<65>>, None)
ThreadFiles == {"missing.png", "face.png"}

InitThreads ==
    /\ initialize
    /\ glPrograms = {}
    /\ glTextures = {}
    /\ running = TRUE
    /\ last = NoOp
    /\ cargs = NoArgs
    /\ dargs = NoDraw
    /\ model = NoModel
    /\ IdlePoison /\ IdleRenderer /\ IdleFrame
    /\ threads = [t \in ThreadIds |-> ThreadReady]
    /\ lockOwner = NoOwner
    /\ cell = NoCell

restUnchanged ==
    UNCHANGED <<running, cargs, dargs, model, poisoned, lockErrs, rendVars, frameVars, cell>>

(* Faulty variant of ThreadBegin: the table is locked for the whole call *)
ThreadBeginLocked(t, op, name) ==
    /\ threads[t].pc = "idle"
    /\ lockOwner[TableOf(op)] = None
    /\ lockOwner' = Acquire(t, TableOf(op))
    /\ threads' = [threads EXCEPT ![t] = [pc |-> "work", op |-> op, name |-> name,
                                          loaded |-> None]]
    /\ UNCHANGED <<cacheVars, last>>
    /\ restUnchanged

(* load_shader / load_texture is entered (resman.rs:47-55, 83-91) *)
ThreadBegin(t, op, name) ==
    /\ threads[t].pc = "idle"
    /\ threads' = [threads EXCEPT ![t] = [pc |-> "work", op |-> op, name |-> name,
                                          loaded |-> None]]
    /\ UNCHANGED <<cacheVars, last, lockOwner>>
    /\ restUnchanged

(* load_shader_internal / load_texture_internal (resman.rs:56-60, 92-95): *)
(* None is returned to the caller, or the new handle is kept for insert   *)
ThreadWork(t) ==
    /\ threads[t].pc = "work"
    /\ LET me == threads[t]
       IN  IF me.op = "load_shader"
           THEN \E r \in load_shader_internal(ThreadArgs,
                                              {d \in FrameDrivers : d.pid \notin glPrograms}) :
                    /\ r.returned
                    /\ glPrograms' = glPrograms \cup r.created
                    /\ threads' = [threads EXCEPT ![t] =
                                     IF r.ret = None THEN ThreadReady
                                     ELSE [me EXCEPT !.pc = "lock", !.loaded = r.ret]]
                    /\ LeastNew(glPrograms, glPrograms')
                    /\ UNCHANGED glTextures
           ELSE \E file \in ThreadFiles :
                \E r \in {load_texture_internal(file, TRUE, tid) :
                            tid \in TextureIds \ glTextures} :
                    /\ glTextures' = glTextures \cup r.created
                    /\ threads' = [threads EXCEPT ![t] =
                                     IF r.ret = None THEN ThreadReady
                                     ELSE [me EXCEPT !.pc = "lock", !.loaded = r.ret]]
                    /\ LeastNew(glTextures, glTextures')
                    /\ UNCHANGED glPrograms
    /\ UNCHANGED <<shaders, textures, last, lockOwner>>
    /\ restUnchanged

(* self.<table>.lock(): waits until the Mutex is free *)
ThreadLock(t) ==
    /\ threads[t].pc = "lock"
    /\ lockOwner[TableOf(threads[t].op)] = None
    /\ lockOwner' = Acquire(t, TableOf(threads[t].op))
    /\ threads' = [threads EXCEPT ![t].pc = "insert"]
    /\ UNCHANGED <<cacheVars, last>>
    /\ restUnchanged

(* Faulty variant of ThreadInsert: the displaced entry is not deleted *)
ThreadInsertNoEvict(t) ==
    /\ threads[t].pc = "insert"
    /\ LET me == threads[t]
           loaded == me.loaded[1]
       IN  /\ IF me.op = "load_shader"
              THEN /\ shaders' = TableInsert(shaders, me.name, loaded)
                   /\ UNCHANGED <<textures, glPrograms, glTextures>>
              ELSE /\ textures' = TableInsert(textures, me.name, loaded)
                   /\ UNCHANGED <<shaders, glPrograms, glTextures>>
           /\ lockOwner' = Release(TableOf(me.op))
    /\ threads' = [threads EXCEPT ![t].pc = "idle"]
    /\ UNCHANGED last
    /\ restUnchanged

(* insert and evict under the guard, which is dropped at the end of the *)
(* if-let (resman.rs:63-76, 98-121); Some(loaded) goes to the caller,   *)
(* who holds it from then on                                            *)
ThreadInsert(t) ==
    /\ threads[t].pc = "insert"
    /\ LET me == threads[t]
           loaded == me.loaded[1]
       IN  /\ IF me.op = "load_shader"
              THEN LET evict == EvictShaderCalls(TableGet(shaders, me.name), loaded)
                   IN  /\ shaders' = TableInsert(shaders, me.name, loaded)
                       /\ glPrograms' = DeletePrograms(glPrograms, {c.id : c \in Range(evict)})
                       /\ UNCHANGED <<textures, glTextures>>
              ELSE LET evict == EvictTextureCalls(TableGet(textures, me.name), loaded)
                   IN  /\ textures' = TableInsert(textures, me.name, loaded)
                       /\ glTextures' = DeleteTextures(glTextures,
                                            UNION {Range(c.ids) : c \in Range(evict)})
                       /\ UNCHANGED <<shaders, glPrograms>>
           /\ lockOwner' = Release(TableOf(me.op))
    /\ threads' = [threads EXCEPT ![t].pc = "idle"]
    /\ UNCHANGED last
    /\ restUnchanged

(* get_shader / get_texture: lock (resman.rs:80, 125) ... *)
ThreadGetLock(t, op, name) ==
    /\ threads[t].pc = "idle"
    /\ lockOwner[TableOf(op)] = None
    /\ lockOwner' = Acquire(t, TableOf(op))
    /\ threads' = [threads EXCEPT ![t] = [pc |-> "get", op |-> op, name |-> name,
                                          loaded |-> None]]
    /\ UNCHANGED <<cacheVars, last>>
    /\ restUnchanged

(* ... get(name).copied(), whose result goes to the caller, and the guard *)
(* is dropped                                                            *)
ThreadGetRead(t) ==
    /\ threads[t].pc = "get"
    /\ lockOwner' = Release(TableOf(threads[t].op))
    /\ threads' = [threads EXCEPT ![t] = ThreadReady]
    /\ UNCHANGED <<cacheVars, last>>
    /\ restUnchanged

(* dispose_all: shaders.lock() (resman.rs:129), textures.lock() (137) *)
ThreadDisposeLock(t) ==
    /\ threads[t].pc \in {"idle", "dispose_textures"}
    /\ LET table == IF threads[t].pc = "idle" THEN "shaders" ELSE "textures"
       IN  /\ lockOwner[table] = None
           /\ lockOwner' = Acquire(t, table)
           /\ threads' = [threads EXCEPT ![t] = [pc |-> "drain_" \o table, op |-> "dispose_all",
                                                 name |-> "", loaded |-> None]]
    /\ UNCHANGED <<cacheVars, last>>
    /\ restUnchanged

(* Faulty variant of ThreadDrain: the entries are deleted on the GPU but *)
(* stay in the table                                                    *)
ThreadDrainKeepsEntries(t) ==
    /\ threads[t].pc \in {"drain_shaders", "drain_textures"}
    /\ IF threads[t].pc = "drain_shaders"
       THEN /\ glPrograms' = DeletePrograms(glPrograms, Ids(shaders))
            /\ lockOwner' = Release("shaders")
            /\ threads' = [threads EXCEPT ![t].pc = "dispose_textures"]
            /\ UNCHANGED <<shaders, textures, glTextures>>
       ELSE /\ glTextures' = DeleteTextures(glTextures, Ids(textures))
            /\ lockOwner' = Release("textures")
            /\ threads' = [threads EXCEPT ![t] = ThreadReady]
            /\ UNCHANGED <<shaders, textures, glPrograms>>
    /\ UNCHANGED last
    /\ restUnchanged

(* dispose_all: drain and delete under the guard (resman.rs:130-132, 138-144) *)
ThreadDrain(t) ==
    /\ threads[t].pc \in {"drain_shaders", "drain_textures"}
    /\ IF threads[t].pc = "drain_shaders"
       THEN /\ shaders' = Empty
            /\ glPrograms' = DeletePrograms(glPrograms, Ids(shaders))
            /\ lockOwner' = Release("shaders")
            /\ threads' = [threads EXCEPT ![t].pc = "dispose_textures"]
            /\ UNCHANGED <<textures, glTextures>>
       ELSE /\ textures' = Empty
            /\ glTextures' = DeleteTextures(glTextures, Ids(textures))
            /\ lockOwner' = Release("textures")
            /\ threads' = [threads EXCEPT ![t] = ThreadReady]
            /\ UNCHANGED <<shaders, glPrograms>>
    /\ UNCHANGED last
    /\ restUnchanged

NextThreads ==
    \E t \in ThreadIds :
        \/ \E op \in {"load_shader", "load_texture"} : ThreadBegin(t, op, CacheName(op))
        \/ ThreadWork(t)
        \/ ThreadLock(t)
        \/ ThreadInsert(t)
        \/ \E op \in {"get_shader", "get_texture"} : ThreadGetLock(t, op, CacheName(op))
        \/ ThreadGetRead(t)
        \/ ThreadDisposeLock(t)
        \/ ThreadDrain(t)

SpecThreads == InitThreads /\ [][NextThreads]_vars

(* C15: with several threads loading, a thread that is compiling a shader *)
(* or decoding and uploading a texture holds no table lock; a lock is     *)
(* held only by a thread in its insert/evict step, in get or in           *)
(* dispose_all, and only the lock of the table that step works on.        *)
C15_NoLockWhileLoading ==
    /\ \A t \in DOMAIN threads :
        threads[t].pc \in {"work", "lock"} =>
            \A table \in DOMAIN lockOwner : lockOwner[table] # <<t>>
    /\ \A table \in DOMAIN lockOwner :
        lockOwner[table] # <<>> =>
            LET me == threads[lockOwner[table][1]]
            IN  \/ me.pc = "insert" /\ me.op = (IF table = "shaders" THEN "load_shader"
                                                                     ELSE "load_texture")
                \/ me.pc = "get" /\ me.op = (IF table = "shaders" THEN "get_shader"
                                                                  ELSE "get_texture")
                \/ me.pc = "drain_" \o table

(* two loads of the same table in their compile/upload phase at once, *)
(* and one uploading while another holds that table's lock            *)
C15_Witness ==
    \E t, u \in DOMAIN threads :
        /\ t # u
        /\ threads[t].pc = "work" /\ threads[t].op = "load_texture"
        /\ threads[u].pc = "insert" /\ threads[u].op = "load_texture"
        /\ lockOwner["textures"] = <<u>>

-----------------------------------------------------------------------------
-----------------------------------------------------------------------------
(* C21: when the load of the "sprite" shader or of the "face" texture     *)
(* returns None during Game::init the process ends there: that load is    *)
(* the program's last step, the frame loop was not entered, no event was  *)
(* polled and no frame was rendered or presented.                         *)
C21_InitFailureAborts ==
    /\ [][(pc \in {"init_shader", "init_texture"} /\ pc' # pc /\ last'.ret = <<>>)
            => pc' = "dead"]_vars
    /\ [][(pc = "dead") => (pc' = "dead" /\ frame' = frame)]_vars
    /\ [](pc = "dead" =>
            /\ last.op \in {"from_files", "load_shader", "load_texture"}
            /\ last.ret = <<>>
            /\ frame.iterations = 0 /\ frame.steps = <<>> /\ frame.done = <<>>
            /\ frame.polled = "none"
            /\ frame.closes = 0
            /\ input_status = "Continue")

C21_Witness ==
    /\ pc = "dead"
    /\ last.op = "load_texture"
    /\ "sprite" \in DOMAIN shaders
    /\ renderer.quad_vao # 0
    /\ events # <<>>

-----------------------------------------------------------------------------
(* texture.rs: impl PartialEq for Texture, applied to every pair of the   *)
(* handles below: any id, fresh or generated size, either set of options, *)
(* bound or not.                                                          *)

SampleTextures ==
    [id : 0..MaxTextureId,
     opts : {TextureNew(0).tex.opts, with_alpha(0).tex.opts},
     size : {[x |-> 0, y |-> 0], [x |-> 2, y |-> 1]},
     is_bound : BOOLEAN]

InitTextureEq ==
    /\ initialize
    /\ glPrograms = {}
    /\ glTextures = {}
    /\ running = TRUE
    /\ last \in {[NoOp EXCEPT !.input = <<a, b>>] : a \in SampleTextures, b \in SampleTextures}
    /\ cargs = NoArgs
    /\ dargs = NoDraw
    /\ model = NoModel
    /\ IdlePoison /\ IdleRenderer /\ IdleFrame /\ IdleThreads

(* a == b *)
TextureCompare ==
    /\ last.op = "init"
    /\ last' = Op("eq", "", last.input, TRUE,
                  Some([eq |-> TextureEq(last.input[1], last.input[2])]), <<>>)
    /\ UNCHANGED <<cacheVars, running, cargs, dargs, model, poisoned, lockErrs,
                   rendVars, frameVars, threadVars>>

NextTextureEq == TextureCompare

SpecTextureEq == InitTextureEq /\ [][NextTextureEq]_vars

(* C22: two Texture values compare equal exactly when their ids are equal, *)
(* whatever their size, options and bound flag.                            *)
C22_EqualById ==
    last.op = "eq" =>
        (last.ret[1].eq <=> last.input[1].id = last.input[2].id)

C22_Witness ==
    /\ last.op = "eq"
    /\ last.ret[1].eq
    /\ last.input[1].size # last.input[2].size
    /\ last.input[1].opts # last.input[2].opts
    /\ last.input[1].is_bound # last.input[2].is_bound

-----------------------------------------------------------------------------
(* the stages a compile input provides *)
StagesOf(args) ==
    {"GL_VERTEX_SHADER", "GL_FRAGMENT_SHADER"}
        \cup (IF args.geometry_source # <<>> THEN {"GL_GEOMETRY_SHADER"} ELSE {})

(* C23: given sources free of zero bytes, Shader::compile does not stop   *)
(* when a stage reports a compile error or the link fails: it compiles    *)
(* every stage provided, creates and links the program, and returns true. *)
C23_PermissiveCompile ==
    (last.op = "compile" /\ ~ArgsContainNul(cargs) /\ UpstreamFailure) =>
        /\ last.returned
        /\ last.ret = <<[ok |-> TRUE, shader |-> last.ret[1].shader]>>
        /\ \A kind \in StagesOf(cargs) :
            \E k \in DOMAIN last.calls :
                last.calls[k].fn = "CompileShader" /\ last.calls[k].kind = kind
        /\ \E k, l \in DOMAIN last.calls :
            /\ k < l
            /\ last.calls[k].fn = "CreateProgram"
            /\ last.calls[l].fn = "LinkProgram"
            /\ last.calls[k].id = last.calls[l].id

(* C24: when Shader::compile returns true, every stage object it created  *)
(* (vertex, fragment, and geometry exactly when a geometry source was     *)
(* given) was attached to the program before the link and deleted after   *)
(* it, each once; without a geometry source no geometry object is         *)
(* created, attached or deleted.                                          *)
C24_StagesAttachedAndDeleted ==
    (last.op = "compile" /\ last.returned /\ last.ret # <<>> /\ last.ret[1].ok) =>
        LET calls   == last.calls
            At(fn)  == {k \in DOMAIN calls : calls[k].fn = fn}
            program == last.ret[1].shader.id
        IN  /\ Cardinality(At("LinkProgram")) = 1
            /\ {calls[k].kind : k \in At("CreateShader")} = StagesOf(cargs)
            /\ Cardinality(At("CreateShader")) = Cardinality(StagesOf(cargs))
            /\ Cardinality(At("AttachShader")) = Cardinality(StagesOf(cargs))
            /\ Cardinality(At("DeleteShader")) = Cardinality(StagesOf(cargs))
            /\ \A k \in At("CreateShader") :
                /\ \E a \in At("AttachShader"), l \in At("LinkProgram") :
                    /\ k < a /\ a < l
                    /\ calls[a].id = program /\ calls[a].ids = <<calls[k].id>>
                /\ \E d \in At("DeleteShader"), l \in At("LinkProgram") :
                    /\ l < d
                    /\ calls[d].id = calls[k].id
            /\ (cargs.geometry_source = <<>> =>
                    \A k \in DOMAIN calls : calls[k].kind # "GL_GEOMETRY_SHADER")

C24_Witness ==
    /\ last.op = "compile"
    /\ last.returned /\ last.ret # <<>> /\ last.ret[1].ok
    /\ cargs.geometry_source # <<>>
    /\ Cardinality({k \in DOMAIN last.calls : last.calls[k].fn = "DeleteShader"}) = 3

-----------------------------------------------------------------------------
(* The uniform setters of Shader, each applied once to a linked program:  *)
(* every setter, under a name with or without a zero byte, with and       *)
(* without activation, and under every answer of the location lookup.     *)

SampleUniformNames == {UniformImage, <<NUL>>, <<105, NUL, 109>>}

SetterInputs ==
    [shader : {[id |-> i] : i \in 1..MaxProgramId},
     name : SampleUniformNames,
     use_shader : BOOLEAN]

InitSetters ==
    /\ initialize
    /\ glPrograms = {}
    /\ glTextures = {}
    /\ running = TRUE
    /\ last \in {[NoOp EXCEPT !.input = i] : i \in SetterInputs}
    /\ cargs = NoArgs
    /\ dargs = NoDraw
    /\ model = NoModel
    /\ IdlePoison /\ IdleRenderer /\ IdleFrame /\ IdleThreads

(* the call shader.<setter>(gl, name, value, use_shader) and its result *)
SetterCall(setter, r) ==
    /\ last.op = "init"
    /\ last' = Op(setter, "", last.input, TRUE, r.ret, r.calls)
    /\ UNCHANGED <<cacheVars, running, cargs, dargs, model, poisoned, lockErrs,
                   rendVars, frameVars, threadVars>>

SetFloat ==
    \E loc \in UniformLocations :
        SetterCall("set_float",
                   set_float(last.input.shader, last.input.name, loc, last.input.use_shader))

SetInteger ==
    \E loc \in UniformLocations :
        SetterCall("set_integer",
                   set_integer(last.input.shader, last.input.name, loc, last.input.use_shader))

SetVector2f ==
    \E loc \in UniformLocations :
        SetterCall("set_vector2f",
                   set_vector2f(last.input.shader, last.input.name, loc, last.input.use_shader))

SetVector3f ==
    \E loc \in UniformLocations :
        SetterCall("set_vector3f",
                   set_vector3f(last.input.shader, last.input.name, loc, last.input.use_shader))

SetVector4f ==
    \E loc \in UniformLocations :
        SetterCall("set_vector4f",
                   set_vector4f(last.input.shader, last.input.name, loc, last.input.use_shader))

SetMatrix4f ==
    \E loc \in UniformLocations :
        SetterCall("set_matrix4f",
                   set_matrix4f(last.input.shader, last.input.name, loc, last.input.use_shader))

SetMatrix4fFrom ==
    \E loc \in UniformLocations :
        SetterCall("set_matrix4f_from",
                   set_matrix4f_from(last.input.shader, last.input.name, loc,
                                     last.input.use_shader))

SetMatrix4fFromPtr ==
    \E loc \in UniformLocations :
        SetterCall("set_matrix4f_from_ptr",
                   set_matrix4f_from_ptr(last.input.shader, last.input.name, loc,
                                         last.input.use_shader))

NextSetters ==
    \/ SetFloat
    \/ SetInteger
    \/ SetVector2f
    \/ SetVector3f
    \/ SetVector4f
    \/ SetMatrix4f
    \/ SetMatrix4fFrom
    \/ SetMatrix4fFromPtr

SpecSetters == InitSetters /\ [][NextSetters]_vars

(* Vocabulary: the setters, the upload calls, the locations the lookup of  *)
(* the last call resolved to.                                              *)
Setters == {"set_float", "set_integer", "set_vector2f", "set_vector3f", "set_vector4f",
            "set_matrix4f", "set_matrix4f_from", "set_matrix4f_from_ptr"}
UploadFns == {"Uniform1f", "Uniform1i", "Uniform2f", "Uniform3f", "Uniform4f",
              "UniformMatrix4fv"}
Uploads == CallsNamed(UploadFns)
Resolved == {last.calls[k].ids[1] : k \in CallIndices("GetUniformLocation")}

(* C25, as stated: set_integer tests `location < 1`, so that whenever the  *)
(* uniform resolves to a location below 1, location 0 included, it         *)
(* reports failure and uploads nothing.                                    *)
C25_Original ==
    (last.op = "set_integer") =>
        \A l \in Resolved : l < 1 => (last.ret = None /\ Uploads = {})

(* C25, amended: set_integer tests `location < 0`.  When the uniform       *)
(* resolves to a negative location it reports failure and uploads          *)
(* nothing; when it resolves to location 0 or above it uploads the value   *)
(* with Uniform1i at that location, after the lookup, and reports success. *)
C25_Amended ==
    (last.op = "set_integer") =>
        \A l \in Resolved :
            /\ l < 0 => (last.ret = None /\ Uploads = {})
            /\ l >= 0 =>
                /\ last.ret # None
                /\ Cardinality(Uploads) = 1
                /\ \A u \in Uploads :
                    /\ last.calls[u].fn = "Uniform1i"
                    /\ last.calls[u].ids = <<l>>
                    /\ last.calls[u].id = last.input.shader.id
                    /\ \A k \in CallIndices("GetUniformLocation") : k < u

C25_Witness ==
    /\ last.op = "set_integer"
    /\ Resolved = {0}
    /\ last.ret # None
    /\ \E u \in Uploads : last.calls[u].fn = "Uniform1i" /\ last.calls[u].ids = <<0>>

(* C26: every setter other than set_integer, given a name that converts,   *)
(* reports failure exactly when the resolved location is below 0, and for  *)
(* every location from 0 up uploads the value and reports success.         *)
C26_OtherSetters ==
    (last.op \in Setters \ {"set_integer"}) =>
        \A l \in Resolved :
            /\ (last.ret = None) <=> (l < 0)
            /\ l >= 0 =>
                \E u \in Uploads : last.calls[u].ids = <<l>>

(* C27: a setter called with use_shader = true activates the program       *)
(* before it resolves the location and before it uploads; called with      *)
(* use_shader = false it activates nothing; and a setter that reports      *)
(* failure, for a name that does not convert or for a location it          *)
(* rejects, has issued no upload.                                          *)
C27_ActivationAndFailure ==
    (last.op \in Setters) =>
        /\ last.input.use_shader =>
            /\ Cardinality(CallIndices("UseProgram")) = 1
            /\ \A a \in CallIndices("UseProgram") :
                /\ last.calls[a].id = last.input.shader.id
                /\ \A k \in CallIndices("GetUniformLocation") \cup Uploads : a < k
        /\ ~last.input.use_shader => CallIndices("UseProgram") = {}
        /\ last.ret = None => Uploads = {}
        /\ ContainsNul(last.input.name) =>
            (last.ret = None /\ CallIndices("GetUniformLocation") = {})

C27_Witness ==
    /\ last.op = "set_vector4f"
    /\ last.input.use_shader
    /\ last.ret # None
    /\ Len(last.calls) = 3
    /\ last.calls[1].fn = "UseProgram"
    /\ last.calls[3].fn = "Uniform4f"

-----------------------------------------------------------------------------
(* C28: draw_sprite issues, in this order: the activation of the           *)
(* renderer's shader; the model matrix and then the tint colour (each a    *)
(* location lookup, followed by the upload when the driver knows the       *)
(* uniform); the selection of texture unit 0 and the binding of the        *)
(* sprite's texture; the binding of the quad's vertex array; one triangle  *)
(* draw; the binding of vertex array 0.  So vertex array 0 is bound when   *)
(* it returns, and the renderer's shader and buffer handles are as before. *)
C28_DrawOrder ==
    (last.op = "draw_sprite") =>
        LET r == last.pre.renderer
            calls == last.calls
            n == Len(calls)
            lookups == CallIndices("GetUniformLocation")
            mid == 2..(n - 5)
        IN  /\ n >= 8
            /\ calls[1] = Call("UseProgram", "", r.shader.id, <<>>)
            /\ CallIndices("UseProgram") = {1}
            /\ Cardinality(lookups) = 2
            /\ lookups \cup Uploads = mid
            /\ \E lm \in lookups, lc \in lookups :
                /\ lm < lc
                /\ calls[lm].kind = UniformModel /\ calls[lm].id = r.shader.id
                /\ calls[lc].kind = UniformSpriteColor /\ calls[lc].id = r.shader.id
                /\ calls[lm].ids[1] >= 0 <=> lm + 1 \in Uploads
                /\ calls[lc].ids[1] >= 0 <=> lc + 1 \in Uploads
                /\ lm + 1 \in Uploads =>
                        calls[lm + 1] = Call("UniformMatrix4fv", UniformModel, r.shader.id,
                                             calls[lm].ids)
                /\ lc + 1 \in Uploads =>
                        calls[lc + 1] = Call("Uniform3f", UniformSpriteColor, r.shader.id,
                                             calls[lc].ids)
                /\ Uploads \subseteq {lm + 1, lc + 1}
            /\ calls[n - 4] = Call("ActiveTexture", "GL_TEXTURE0", 0, <<>>)
            /\ calls[n - 3] = Call("BindTexture", "GL_TEXTURE_2D", last.input.texture.id, <<>>)
            /\ calls[n - 2] = Call("BindVertexArray", "", r.quad_vao, <<>>)
            /\ calls[n - 1].fn = "DrawArrays" /\ calls[n - 1].kind = "GL_TRIANGLES"
            /\ calls[n] = Call("BindVertexArray", "", 0, <<>>)
            /\ renderer = r

C28_Witness ==
    /\ last.op = "draw_sprite"
    /\ Len(last.calls) = 10
    /\ Cardinality(Uploads) = 2
    /\ renderer.quad_vao # 0 /\ renderer.quad_vbo # 0 /\ renderer.shader.id # 0

-----------------------------------------------------------------------------
(* C29: the model matrix draw_sprite builds is identity * translate(pos)   *)
(* * translate(size / 2) * rotate(Z, rotation) * scale(size): it maps a    *)
(* local point v to pos + size / 2 + R(rotation) * (size * v) and leaves   *)
(* the z axis alone, for integer positions, even sizes and quarter turns.  *)
C29_ModelMatrix ==
    (last.op = "draw_sprite") =>
        LET a == last.input
            Turn(p) == CASE a.rotate = 0 -> <<p[1], p[2]>>
                         [] a.rotate = 90 -> <<0 - p[2], p[1]>>
                         [] a.rotate = 180 -> <<0 - p[1], 0 - p[2]>>
                         [] a.rotate = 270 -> <<p[2], 0 - p[1]>>
            Image(v) == LET t == Turn(<<a.size[1] * v[1], a.size[2] * v[2]>>)
                        IN  <<2 * a.pos[1] + a.size[1] + 2 * t[1],
                              2 * a.pos[2] + a.size[2] + 2 * t[2]>>
        IN  /\ \A v \in (0..2) \X (0..2) :
                    Mat4Apply(model, <<2 * v[1], 2 * v[2], 0, 2>>) =
                        <<Image(v)[1], Image(v)[2], 0, 2>>
            /\ Mat4Apply(model, <<0, 0, 1, 0>>) = <<0, 0, 1, 0>>

C29_Witness ==
    /\ last.op = "draw_sprite"
    /\ last.input.rotate = 90
    /\ last.input.size[1] # last.input.size[2]
    /\ last.input.pos = <<1, 0 - 1>>
    /\ Mat4Apply(model, <<1, 0, 0, 1>>) =
            <<1 + last.input.size[1] \div 2, last.input.size[2] \div 2 - 1 + last.input.size[1],
              0, 1>>

-----------------------------------------------------------------------------
(* C30: over any sequence of polled events only Event::Quit changes        *)
(* anything: handle_input answers Quit exactly when a Quit was in the      *)
(* queue, and whatever it polled, the Game, the cache, the renderer and    *)
(* the GPU objects are as before and no GPU call was issued.  From its     *)
(* construction on, the Game's state is Active (never Menu or Win) and     *)
(* every one of its key flags is false.                                    *)
C30_OnlyQuitMatters ==
    /\ [][(pc = "poll" /\ pc' # pc) =>
            /\ (input_status' = "Quit") <=> (\E i \in DOMAIN events : events[i] = "Quit")
            /\ (input_status' # "Quit") => input_status' = input_status
            /\ frame'.game = frame.game
            /\ <<shaders', textures', glPrograms', glTextures'>> =
                    <<shaders, textures, glPrograms, glTextures>>
            /\ <<renderer', glVaos', glBufs'>> = <<renderer, glVaos, glBufs>>
            /\ last'.calls = <<>>]_vars
    /\ [](frame.game.state \notin {"Menu", "Win"})
    /\ [](pc \in {"test", "poll", "update", "clear", "render", "draw", "swap",
                  "close", "uninit", "done"} =>
                (frame.game.state = "Active" /\ frame.game.keys = {}))
    /\ [](frame.game.state = "Active" => frame.game.keys = {})

C30_Witness ==
    /\ pc = "update"
    /\ last.op = "handle_input"
    /\ last.input = <<"Keyboard", "Other">>
    /\ input_status = "Continue"
    /\ frame.iterations = 1
    /\ frame.game = [state |-> "Active", keys |-> {}]

-----------------------------------------------------------------------------
(* The texture half of the cache on its own: loads of every file under    *)
(* every name, with and without alpha, lookups, and dispose_all.           *)
NextTextures ==
    \/ \E name \in Names, file \in Paths, alpha \in BOOLEAN : LoadTexture(name, file, alpha)
    \/ \E name \in Names : GetTexture(name)
    \/ \E torder \in Perms(DOMAIN textures) : DisposeAll(<<>>, torder)

SpecTextures == InitCache /\ [][NextTextures]_vars

(* C31: a texture loaded with alpha = true has internal format and pixel   *)
(* format RGBA, one loaded with alpha = false has both RGB; either way its *)
(* wrap modes are REPEAT and its min and mag filters LINEAR.  This is so   *)
(* of the handle returned, of the handle cached, and of the values the     *)
(* upload and the parameter calls were given.                              *)
C31_TextureFormats ==
    (last.op = "load_texture" /\ last.ret # None) =>
        LET tex == last.ret[1]
            fmt == IF last.input.alpha THEN "GL_RGBA" ELSE "GL_RGB"
            Param(pname) == {last.calls[k].ids : k \in
                                {j \in CallIndices("TexParameteri") :
                                    last.calls[j].kind = pname}}
        IN  /\ tex.opts.internal_format = fmt /\ tex.opts.image_format = fmt
            /\ tex.opts.wrap_s = "GL_REPEAT" /\ tex.opts.wrap_t = "GL_REPEAT"
            /\ tex.opts.min_filter = "GL_LINEAR" /\ tex.opts.max_filter = "GL_LINEAR"
            /\ textures[last.name].opts = tex.opts
            /\ Cardinality(CallIndices("TexImage2D")) = 1
            /\ \A k \in CallIndices("TexImage2D") :
                    /\ last.calls[k].ids[1] = fmt
                    /\ last.calls[k].ids[4] = fmt
            /\ Param("GL_TEXTURE_WRAP_S") = {<<"GL_REPEAT">>}
            /\ Param("GL_TEXTURE_WRAP_T") = {<<"GL_REPEAT">>}
            /\ Param("GL_TEXTURE_MIN_FILTER") = {<<"GL_LINEAR">>}
            /\ Param("GL_TEXTURE_MAG_FILTER") = {<<"GL_LINEAR">>}

C31_Witness ==
    /\ last.op = "load_texture" /\ last.ret # None
    /\ last.input.alpha
    /\ last.ret[1].opts.image_format = "GL_RGBA"
    /\ \E n \in DOMAIN textures : textures[n].opts.image_format = "GL_RGB"

-----------------------------------------------------------------------------
(* C32: generate binds the texture, uploads the whole image, sets the two  *)
(* wrap and the two filter parameters and unbinds, in this order, so that  *)
(* texture 0 is bound when it returns.  Every texture in the cache went    *)
(* through generate exactly once, before it was inserted: its width and    *)
(* height are those of the decoded image, and they stay as they are for    *)
(* as long as the texture is cached.                                       *)
C32_GenerateOnce ==
    /\ [](TextureLoaded =>
            LET tex == last.ret[1]
                img == Files[last.input.file]
                calls == last.calls
            IN  /\ Len(calls) >= 8
                /\ calls[1].fn = "GenTextures" /\ calls[1].id = tex.id
                /\ calls[2] = Call("BindTexture", "GL_TEXTURE_2D", tex.id, <<>>)
                /\ calls[3].fn = "TexImage2D"
                /\ <<calls[3].ids[2], calls[3].ids[3]>> = <<img.width, img.height>>
                /\ <<calls[4].fn, calls[4].kind>> = <<"TexParameteri", "GL_TEXTURE_WRAP_S">>
                /\ <<calls[5].fn, calls[5].kind>> = <<"TexParameteri", "GL_TEXTURE_WRAP_T">>
                /\ <<calls[6].fn, calls[6].kind>> = <<"TexParameteri", "GL_TEXTURE_MIN_FILTER">>
                /\ <<calls[7].fn, calls[7].kind>> = <<"TexParameteri", "GL_TEXTURE_MAG_FILTER">>
                /\ calls[8] = Call("BindTexture", "GL_TEXTURE_2D", 0, <<>>)
                /\ CallIndices("TexImage2D") = {3}
                /\ CallIndices("BindTexture") = {2, 8}
                /\ CallIndices("TexParameteri") = 4..7
                /\ \A k \in 9..Len(calls) : calls[k].fn = "DeleteTextures"
                /\ img.load = "ImageU8"
                /\ tex.size = [x |-> img.width, y |-> img.height]
                /\ textures[last.name] = tex)
    /\ [][\A n \in DOMAIN textures' :
            (n \notin DOMAIN textures \/ textures'[n] # textures[n]) =>
                /\ last'.op = "load_texture" /\ last'.name = n
                /\ last'.ret = <<textures'[n]>>
                /\ textures'[n].id \notin glTextures]_vars
    /\ [](\A n \in DOMAIN textures : textures[n].size.x > 0 /\ textures[n].size.y > 0)

C32_Witness ==
    /\ last.op = "get_texture" /\ last.ret # None
    /\ last.ret[1].size = [x |-> 2, y |-> 1]
    /\ Cardinality(DOMAIN textures) > 1
    /\ \A n \in DOMAIN textures : textures[n].size = [x |-> 2, y |-> 1]

-----------------------------------------------------------------------------
(* C33: the draw call of draw_sprite covers exactly the 6 vertices of the  *)
(* unit quad, and the buffer uploaded at construction holds all 6 vertices *)
(* of 4 floats (of 4 bytes) each, so that the draw reads no vertex data    *)
(* beyond what was uploaded.                                               *)
C33_DrawWithinBuffer ==
    /\ (last.op = "draw_sprite") =>
            \A k \in CallIndices("DrawArrays") : last.calls[k].ids = <<0, 6>>
    /\ (last.op = "renderer_new") =>
            \A b \in CallIndices("BufferData"), a \in CallIndices("VertexAttribPointer") :
                LET bytes == last.calls[b].ids[1]
                    stride == last.calls[a].ids[2]
                IN  /\ bytes = 6 * 4 * 4
                    /\ 6 * stride <= bytes

-----------------------------------------------------------------------------
(* Two threads that have both entered load_shader, or both load_texture,   *)
(* under the same name, each about to create its resource.  The table is   *)
(* empty or holds what an earlier load left under that name.               *)

RacePair == {1, 2}

Racing(op) == [pc |-> "work", op |-> op, name |-> CacheName(op), loaded |-> None]

InitRace ==
    /\ running = TRUE
    /\ last = NoOp
    /\ cargs = NoArgs
    /\ dargs = NoDraw
    /\ model = NoModel
    /\ IdlePoison /\ IdleRenderer /\ IdleFrame
    /\ lockOwner = NoOwner
    /\ cell = NoCell
    /\ \E op \in {"load_shader", "load_texture"}, cached \in BOOLEAN :
        /\ threads = [t \in ThreadIds |-> IF t \in RacePair THEN Racing(op) ELSE ThreadReady]
        /\ shaders = IF cached /\ op = "load_shader"
                     THEN TableInsert(Empty, CacheName(op), [id |-> 1]) ELSE Empty
        /\ textures = IF cached /\ op = "load_texture"
                      THEN TableInsert(Empty, CacheName(op),
                                       generate(with_alpha(1).tex, [x |-> 2, y |-> 1]).tex)
                      ELSE Empty
        /\ glPrograms = Ids(shaders)
        /\ glTextures = Ids(textures)

NextRace ==
    \E t \in RacePair :
        \/ ThreadWork(t)
        \/ ThreadLock(t)
        \/ ThreadInsert(t)

SpecRace == InitRace /\ [][NextRace]_vars

(* C34: when two threads call load_shader (or load_texture) concurrently   *)
(* under one name and both succeed, then once both have returned the       *)
(* table holds under that name exactly one of the two new resources, the   *)
(* other one has been deleted on the GPU, nothing else of that kind is     *)
(* live (no object is leaked), and the caller whose resource was evicted   *)
(* holds, as its return value, a handle to the deleted object.             *)
C34_ConcurrentSameName ==
    \A t \in RacePair, u \in RacePair :
        (/\ t # u
         /\ threads[t].pc = "idle" /\ threads[u].pc = "idle"
         /\ threads[t].loaded # <<>> /\ threads[u].loaded # <<>>) =>
            LET a == threads[t].loaded[1]
                b == threads[u].loaded[1]
                name == threads[t].name
                shader == threads[t].op = "load_shader"
                table == IF shader THEN shaders ELSE textures
                live == IF shader THEN glPrograms ELSE glTextures
            IN  /\ threads[u].name = name
                /\ a.id # b.id /\ a.id # 0 /\ b.id # 0
                /\ DOMAIN table = {name}
                /\ table[name] \in {a, b}
                /\ live = {table[name].id}
                /\ table[name] = a => b.id \notin live
                /\ table[name] = b => a.id \notin live
                /\ lockOwner = NoOwner

C34_Witness ==
    /\ threads[1].pc = "idle" /\ threads[2].pc = "idle"
    /\ threads[1].op = "load_texture" /\ threads[2].op = "load_texture"
    /\ threads[1].loaded # <<>> /\ threads[2].loaded # <<>>
    /\ textures["face"] = threads[2].loaded[1]
    /\ threads[1].loaded[1].id \notin glTextures
    /\ threads[2].loaded[1].id = 1

-----------------------------------------------------------------------------
(* C35: under every interleaving of load_shader, load_texture, get_shader, *)
(* get_texture and dispose_all by several threads, whenever the lock of a  *)
(* table is free every handle in that table names a GPU object that is     *)
(* live (created and not deleted); and no GPU name is deleted twice        *)
(* without having been created again in between: what a step deletes was   *)
(* live, was in the table, and is out of the table after the step.         *)
C35_TablesHoldLiveObjects ==
    /\ [](/\ lockOwner["shaders"] = <<>> =>
                (Ids(shaders) \subseteq glPrograms /\ 0 \notin Ids(shaders))
          /\ lockOwner["textures"] = <<>> =>
                (Ids(textures) \subseteq glTextures /\ 0 \notin Ids(textures)))
    /\ [][/\ glPrograms \ glPrograms' \subseteq Ids(shaders) \ Ids(shaders')
          /\ glTextures \ glTextures' \subseteq Ids(textures) \ Ids(textures')
          /\ (Ids(shaders) \ Ids(shaders')) \subseteq (glPrograms \ glPrograms')
          /\ (Ids(textures) \ Ids(textures')) \subseteq (glTextures \ glTextures')
          /\ (glPrograms \ glPrograms' # {} \/ shaders' # shaders) =>
                lockOwner["shaders"] # <<>>
          /\ (glTextures \ glTextures' # {} \/ textures' # textures) =>
                lockOwner["textures"] # <<>>]_vars

C35_Witness ==
    /\ lockOwner = NoOwner
    /\ "sprite" \in DOMAIN shaders /\ "face" \in DOMAIN textures
    /\ threads[1].pc = "idle" /\ threads[1].op = "load_shader"
    /\ threads[1].loaded # <<>>
    /\ threads[1].loaded[1].id \notin glPrograms
    /\ threads[2].pc = "lock" /\ threads[2].op = "load_texture"
    /\ Cardinality(glTextures) = 2

-----------------------------------------------------------------------------
(* C36: in a run of Program::execute every draw_sprite uses a shader       *)
(* program, a texture and a vertex array that are live (created, not yet   *)
(* deleted) when it is issued; no draw is issued once dispose_all or       *)
(* uninit has run; and the shader handle copied into the renderer at init  *)
(* names a live program, the one cached as "sprite", until teardown.       *)
C36_DrawsUseLiveObjects ==
    /\ [](last.op = "draw_sprite" =>
            /\ last.pre.renderer.shader.id # 0
            /\ last.pre.renderer.shader.id \in last.pre.glPrograms
            /\ last.input.texture.id # 0
            /\ last.input.texture.id \in last.pre.glTextures
            /\ last.pre.renderer.quad_vao # 0
            /\ last.pre.renderer.quad_vao \in last.pre.glVaos
            /\ last.pre.renderer.quad_vbo \in last.pre.glBufs
            /\ \A k \in CallIndices("UseProgram") :
                    last.calls[k].id \in last.pre.glPrograms
            /\ \A k \in CallIndices("BindTexture") :
                    last.calls[k].id \in last.pre.glTextures
            /\ \A k \in CallIndices("BindVertexArray") :
                    last.calls[k].id \in last.pre.glVaos \cup {0})
    /\ [][(last'.op = "draw_sprite" /\ last' # last) =>
            /\ pc = "draw" /\ frame.closes = 0
            /\ last.op \notin {"dispose_all", "uninit"}]_vars
    /\ [][(last.op \in {"dispose_all", "uninit"}) =>
            last'.op \in {"dispose_all", "uninit"}]_vars
    /\ [](pc \in {"init_texture", "test", "poll", "update", "clear", "render", "draw",
                  "swap", "close"} =>
            /\ renderer.shader.id \in glPrograms
            /\ "sprite" \in DOMAIN shaders
            /\ shaders["sprite"].id = renderer.shader.id
            /\ renderer.quad_vao \in glVaos)

C36_Witness ==
    /\ last.op = "draw_sprite"
    /\ frame.iterations = 1
    /\ pc = "swap"
    /\ last.input.texture.id \in glTextures
    /\ renderer.shader.id \in glPrograms
    /\ renderer.quad_vao \in glVaos

-----------------------------------------------------------------------------
(* C37: the frame whose poll returned Quit is still carried through:       *)
(* after that poll the loop runs update, clear, render and the buffer swap *)
(* of that same frame, and only then is the loop condition found false;    *)
(* teardown starts from the loop test, after the swap of the frame that    *)
(* polled Quit, and from nowhere else.                                     *)
C37_QuitFrameCompletes ==
    /\ [][(pc = "poll" /\ pc' # pc) =>
            (pc' = "update" /\ frame'.steps = <<"poll">>)]_vars
    /\ [][(input_status = "Quit" /\ pc # pc') =>
            <<pc, pc'>> \in {<<"update", "clear">>, <<"clear", "render">>,
                             <<"render", "draw">>, <<"draw", "swap">>, <<"swap", "test">>,
                             <<"test", "close">>, <<"close", "uninit">>,
                             <<"uninit", "done">>}]_vars
    /\ [][(pc' = "close" /\ pc # "close") =>
            /\ pc = "test"
            /\ last.op = "swap_backbuffer"
            /\ frame.polled = "Quit" /\ input_status = "Quit"
            /\ frame.steps = <<>>
            /\ frame.done = <<"poll", "update", "clear", "render", "swap">>
            /\ frame.closes = 0]_vars
    /\ ((input_status = "Quit" /\ pc = "update") ~>
            (pc = "test" /\ last.op = "swap_backbuffer" /\ input_status = "Quit"))

C37_Witness ==
    /\ pc = "swap"
    /\ input_status = "Quit"
    /\ frame.polled = "Quit"
    /\ frame.steps = <<"poll", "update", "clear", "render">>
    /\ last.op = "draw_sprite"
    /\ frame.closes = 0

-----------------------------------------------------------------------------
(* C38: handle_input returns Quit as soon as it has polled the first Quit  *)
(* event: the events queued behind that Quit stay in the queue, unpolled.  *)
(* When the queue holds no Quit it polls every pending event, leaving the  *)
(* queue empty, and returns Continue.                                      *)
C38_StopsAtFirstQuit ==
    [][(pc = "poll" /\ pc' # pc) =>
        /\ last'.op = "handle_input" /\ last'.input = events
        /\ IF \E i \in DOMAIN events : events[i] = "Quit"
           THEN /\ input_status' = "Quit"
                /\ last'.ret = <<[status |-> "Quit"]>>
                /\ \E i \in DOMAIN events :
                    /\ events[i] = "Quit"
                    /\ \A j \in 1..(i - 1) : events[j] # "Quit"
                    /\ events' = SubSeq(events, i + 1, Len(events))
           ELSE /\ input_status' = "Continue"
                /\ last'.ret = <<[status |-> "Continue"]>>
                /\ events' = <<>>]_vars

C38_Witness ==
    /\ pc = "update"
    /\ last.op = "handle_input"
    /\ last.input = <<"Quit", "Keyboard">>
    /\ events = <<"Keyboard">>
    /\ input_status = "Quit"

-----------------------------------------------------------------------------
(* The shader half of the cache on its own: loads of every sample source   *)
(* under every name and driver answer, lookups, and dispose_all.           *)
NextShaders ==
    \/ \E name \in Names, args \in SampleArgs : LoadShader(name, args, SampleDrivers)
    \/ \E name \in Names : GetShader(name)
    \/ \E sorder \in Perms(DOMAIN shaders) : DisposeAll(sorder, <<>>)

SpecShaders == InitCache /\ [][NextShaders]_vars

(* C39: a load_shader(N, args) that fails leaves the shader table as it    *)
(* was and issues no GPU delete: a shader that was cached under N is still *)
(* cached with the same id, its program is still live, and a get_shader(N) *)
(* that follows returns it.                                                *)
C39_FailedLoadKeepsEntry ==
    /\ []((last.op = "load_shader" /\ last.ret = <<>>) =>
            /\ shaders = last.pre.shaders
            /\ CallIndices("DeleteProgram") = {}
            /\ last.pre.glPrograms \subseteq glPrograms
            /\ last.name \in DOMAIN last.pre.shaders =>
                /\ last.name \in DOMAIN shaders
                /\ shaders[last.name].id = last.pre.shaders[last.name].id
                /\ shaders[last.name].id \in glPrograms)
    /\ [][(/\ last.op = "load_shader" /\ last.ret = <<>>
           /\ last'.op = "get_shader" /\ last'.name = last.name) =>
            /\ last'.ret = Lookup(last.pre.shaders, last.name)
            /\ \A h \in Range(last'.ret) : h.id \in glPrograms']_vars

C39_Witness ==
    /\ last.op = "load_shader" /\ last.returned /\ last.ret = <<>>
    /\ last.name \in DOMAIN last.pre.shaders
    /\ shaders[last.name].id \in glPrograms
    /\ Cardinality(DOMAIN shaders) > 1

-----------------------------------------------------------------------------
(* C40: a load under the name N changes nothing but N's entry of its own   *)
(* table.  load_shader leaves the texture table and the live textures as   *)
(* they were, load_texture the shader table and the live programs; and     *)
(* whatever is cached under a name other than N is cached unchanged after  *)
(* the load, its GPU object still live.                                    *)
C40_LoadTouchesOwnEntryOnly ==
    /\ (last.op = "load_shader") =>
            /\ textures = last.pre.textures
            /\ glTextures = last.pre.glTextures
            /\ DOMAIN shaders \subseteq DOMAIN last.pre.shaders \cup {last.name}
            /\ \A M \in DOMAIN last.pre.shaders \ {last.name} :
                    /\ M \in DOMAIN shaders
                    /\ shaders[M] = last.pre.shaders[M]
                    /\ shaders[M].id \in glPrograms
            /\ last.pre.glPrograms \ glPrograms \subseteq
                    {h.id : h \in Range(Lookup(last.pre.shaders, last.name))}
            /\ CallsNamed({"DeleteTextures", "GenTextures", "TexImage2D"}) = {}
    /\ (last.op = "load_texture") =>
            /\ shaders = last.pre.shaders
            /\ glPrograms = last.pre.glPrograms
            /\ DOMAIN textures \subseteq DOMAIN last.pre.textures \cup {last.name}
            /\ \A M \in DOMAIN last.pre.textures \ {last.name} :
                    /\ M \in DOMAIN textures
                    /\ textures[M] = last.pre.textures[M]
                    /\ textures[M].id \in glTextures
            /\ last.pre.glTextures \ glTextures \subseteq
                    {h.id : h \in Range(Lookup(last.pre.textures, last.name))}
            /\ CallsNamed({"DeleteProgram", "CreateProgram", "CreateShader"}) = {}

C40_Witness ==
    /\ last.op = "load_texture" /\ last.ret # <<>>
    /\ last.name \in DOMAIN last.pre.textures
    /\ last.pre.textures[last.name].id \notin glTextures
    /\ DOMAIN last.pre.textures \ {last.name} # {}
    /\ DOMAIN shaders # {}

=============================================================================
